---- MODULE Spec2Model ----
(***************************************************************************)
(* Restore side of mysqldump: Source (source.go) reads a statement stream, *)
(* optionally merges consecutive INSERT statements, and dispatches every   *)
(* statement to the dbWrapper executor.                                    *)
(*                                                                         *)
(* Text is modelled as a sequence of tokens.  A token stands for a run of  *)
(* characters that the code never looks inside; the characters the code    *)
(* does look at (";", "\n", " ", the prefix "INSERT INTO", the keyword     *)
(* "VALUES", ",") are tokens of their own.                                 *)
(***************************************************************************)
EXTENDS Integers, Sequences, FiniteSets, TLC

\* Bounds of the model.
MaxStmts == 3
MaxInserts == 5
MaxMerge == 3
MaxReadErrAt == 2
MaxBatch == 3

VARIABLES
    items,        \* the statements the stream was written from (kinds, in order)
    dsnOk,        \* whether GetDBNameFromDSN finds a database name (source.go:92)
    mergeSize,    \* sourceOption.mergeInsert (source.go:17)
    dryRun,       \* sourceOption.dryRun (source.go:16)
    readErrAt,    \* the reader fails on this ReadString call (0: never)
    pc,           \* position of Source in its body (source.go:70-188)
    result,       \* the error Source returned ("running" before it returns)
    pos,          \* number of tokens the bufio.Reader r has handed out
    reads,        \* number of r.ReadString calls made (source.go:126, 142)
    ssql,         \* local ssql (source.go:135)
    insertSQLs,   \* local insertSQLs (source.go:139)
    i,            \* loop counter of the accumulation loop (source.go:141)
    dispatched,   \* queries passed to dbWrapper.Exec, in order (source.go:57)
    executed,     \* queries passed on to sql.DB.Exec, in order (source.go:65)
    errAt,        \* Len(dispatched) when a read or an execution failed (0: none)
    call,         \* which call of Source this is (1 or 2)
    prev,         \* outcome of the previous call of Source on the same stream
    mi_in,        \* mergeInsert called on its own: the statements, by structure
    mi_out,       \* mergeInsert called on its own: what it returned
    br_row,       \* buildRowData called on its own: per column its declared type
                  \* and the Go representation of its value (mysqldump.go:1073)
    br_out,       \* buildRowData called on its own: what it returned
    td_types,     \* writeTableData: lineRows.ColumnTypes() (mysqldump.go:1027)
    td_parseTime, \* whether the driver hands DATE values over as time.Time
    td_rows,      \* the cursor's rows: per row, per column, whether it is NULL
    td_semi,      \* whether the character values of the table are the text ";"
    td_N,         \* parameter perDataNumber (mysqldump.go:1010)
    td_queryOk,   \* whether db.Query, Columns and ColumnTypes succeed
    td_scanErrAt, \* lineRows.Scan fails on this row (0: never)
    td_pc,        \* position of writeTableData in its body
    td_rowId,     \* local rowId (mysqldump.go:1034)
    td_out,       \* what has been written to buf, in order
    td_result,    \* the error writeTableData returned ("running" before)
    sz_in,        \* sanitize called on its own: the input (util.go:30)
    sz_out,       \* sanitize called on its own: what it returned
    allTriggers,  \* package variable allTriggers (mysqldump.go:703)
    trgQueries,   \* number of SHOW TRIGGERS queries issued (mysqldump.go:1186)
    trgCalls,     \* number of getTrigger calls that have returned
    trgOut,       \* what the last getTrigger call returned
    dpOpt,        \* package variable dpOpt (mysqldump.go:702)
    dumpCalls,    \* number of Dump calls made in this process
    passed,       \* the options passed to the last Dump call
    dumpRet,      \* what the last Dump call returned and whether it produced
                  \* the compressed file (mysqldump.go:708-733)
    dp_in,        \* dumpOption.dump: the options passed, the catalog kind of
                  \* table u and the operation that fails
    dp_pc,        \* position of dump in its body (mysqldump.go:735-903)
    dp_db,        \* index in o.Dbs of the database of the outer loop
    dp_tbl,       \* index in tables of the next table of the inner loop
    dp_buf,       \* the sections written to buf, in order
    dp_sink,      \* what o.writer has received
    dp_result,    \* the error dump returned ("running" before it returns)
    gz_in,        \* Compress: what the files and the compressor do
    gz_ppc,       \* position of the goroutine (gzip.go:42-49)
    gz_cpc,       \* position of Compress itself (gzip.go:51-63)
    gz_err,       \* the variable err both of them assign (gzip.go:35, 44, 51, 57)
    gz_left,      \* writes to the pipe that io.Copy(gzw, f) still has to make
    gz_pipe,      \* the pipe: open, or what the writer closed it with
    gz_perr,      \* the error the goroutine met reading or closing ("nil": none)
    gz_ret,       \* what Compress returned ("running" before it returns)
    gz_removed    \* whether the uncompressed file has been removed

rowVars == <<br_row, br_out>>

dataVars == <<td_types, td_parseTime, td_rows, td_semi, td_N, td_queryOk, td_scanErrAt,
              td_pc, td_rowId, td_out, td_result>>

sanitizeVars == <<sz_in, sz_out>>

triggerVars == <<allTriggers, trgQueries, trgCalls, trgOut>>

optionVars == <<dpOpt, dumpCalls, passed, dumpRet>>

bodyVars == <<dp_in, dp_pc, dp_db, dp_tbl, dp_buf, dp_sink, dp_result>>

gzipVars == <<gz_in, gz_ppc, gz_cpc, gz_err, gz_left, gz_pipe, gz_perr, gz_ret, gz_removed>>

dumpVars == <<rowVars, dataVars, sanitizeVars, triggerVars, optionVars, bodyVars, gzipVars>>

vars == <<items, dsnOk, mergeSize, dryRun, readErrAt, pc, result, pos, reads, ssql,
          insertSQLs, i, dispatched, executed, errAt, call, prev, mi_in, mi_out, dumpVars>>

sourceVars == <<items, dsnOk, mergeSize, dryRun, readErrAt, pc, result, pos, reads, ssql,
                insertSQLs, i, dispatched, executed, errAt, call, prev>>

mergeVars == <<mi_in, mi_out>>

-----------------------------------------------------------------------------
\* Text helpers (package strings).

Min(S) == CHOOSE x \in S : \A y \in S : x <= y

Max(S) == CHOOSE x \in S : \A y \in S : x >= y

IsSpace(tok) == tok \in {" ", "\n"}

\* strings.HasPrefix
HasPrefix(s, p) == Len(s) >= Len(p) /\ SubSeq(s, 1, Len(p)) = p

\* strings.HasSuffix
HasSuffix(s, p) == Len(s) >= Len(p) /\ SubSeq(s, Len(s) - Len(p) + 1, Len(s)) = p

\* strings.TrimPrefix
TrimPrefix(s, p) == IF HasPrefix(s, p) THEN SubSeq(s, Len(p) + 1, Len(s)) ELSE s

\* strings.TrimSuffix
TrimSuffix(s, p) == IF HasSuffix(s, p) THEN SubSeq(s, 1, Len(s) - Len(p)) ELSE s

\* strings.Index of a one-token needle: first position, 0 when absent (Go: -1)
Index(s, tok) ==
    LET hits == {j \in 1..Len(s) : s[j] = tok}
    IN  IF hits = {} THEN 0 ELSE Min(hits)

\* strings.TrimLeft(s, "\n")
RECURSIVE TrimLeftNL(_)
TrimLeftNL(s) == IF s # <<>> /\ Head(s) = "\n" THEN TrimLeftNL(Tail(s)) ELSE s

RECURSIVE TrimSpaceLeft(_)
TrimSpaceLeft(s) == IF s # <<>> /\ IsSpace(Head(s)) THEN TrimSpaceLeft(Tail(s)) ELSE s

RECURSIVE TrimSpaceRight(_)
TrimSpaceRight(s) ==
    IF s # <<>> /\ IsSpace(s[Len(s)]) THEN TrimSpaceRight(SubSeq(s, 1, Len(s) - 1)) ELSE s

\* strings.TrimSpace
TrimSpace(s) == TrimSpaceRight(TrimSpaceLeft(s))

trim_KeepsLeading(s) == TrimSpaceRight(s)

\* trim (source.go)
trim(s) == TrimSpace(TrimLeftNL(s))

-----------------------------------------------------------------------------
\* The stream.

Kinds == {"ins", "nov", "oth", "cmt", "esc"}

Row(n) == "(" \o ToString(n) \o ")"

InsertHead == <<"INSERT INTO", " ", "t (c)", " ", "VALUES", " ", "\n">>

\* The text of the n-th statement of the stream, as a dump writes it.
Text(kind, n) ==
    CASE kind = "ins" -> InsertHead \o <<Row(n), ";">>
      [] kind = "nov" -> <<"INSERT INTO", " ", "t", " ", "SET c=0", ";">>
      [] kind = "oth" -> <<"UNLOCK TABLES", ";">>
      [] kind = "cmt" -> <<"-- c", "\n">> \o InsertHead \o <<Row(n), ";">>
      [] kind = "esc" -> InsertHead \o <<"('a", "\\", ";", "b')", ";">>
      [] kind = "insu" -> <<"INSERT INTO", " ", "u (c)", " ", "VALUES", " ", "\n", Row(n), ";">>
      [] kind = "tail" -> InsertHead \o <<Row(n)>>

RECURSIVE Render(_, _)
Render(its, n) ==
    IF n > Len(its) THEN <<>>
    ELSE Text(its[n], n) \o <<"\n">> \o Render(its, n + 1)

\* what the reader holds: the statements of items, or the data section
\* writeTableData has written
Stream == Render(items, 1) \o td_out

ReadString_TailIsStatement(s, from, delim) ==
    LET hits == {j \in (from + 1)..Len(s) : s[j] = delim}
    IN  IF hits = {}
        THEN [line |-> SubSeq(s, from + 1, Len(s)), pos |-> Len(s),
              err |-> IF from < Len(s) THEN "nil" ELSE "EOF"]
        ELSE [line |-> SubSeq(s, from + 1, Min(hits)), pos |-> Min(hits), err |-> "nil"]

\* bufio.Reader.ReadString(delim) on text s of which `from` tokens are consumed
ReadString(s, from, delim) ==
    LET hits == {j \in (from + 1)..Len(s) : s[j] = delim}
    IN  IF hits = {}
        THEN [line |-> SubSeq(s, from + 1, Len(s)), pos |-> Len(s), err |-> "EOF"]
        ELSE [line |-> SubSeq(s, from + 1, Min(hits)), pos |-> Min(hits), err |-> "nil"]

\* r.ReadString(';') on the reader of this call, which may fail
Read ==
    IF reads + 1 = readErrAt
    THEN [line |-> <<>>, pos |-> pos, err |-> "io"]
    ELSE ReadString(Stream, pos, ";")

-----------------------------------------------------------------------------
\* mergeInsert (source.go)

RECURSIVE MergeRest(_, _, _)
\* the loop over insertSQLs[1:]; k is the loop index i, n is len(insertSQLs)
MergeRest(rest, k, n) ==
    IF rest = <<>> THEN [sql |-> <<>>, err |-> "nil"]
    ELSE LET insertSQL == Head(rest)
             sep == IF k < n - 1 THEN <<",">> ELSE <<>>
             valuesIdx == Index(insertSQL, "VALUES")
         IN  IF valuesIdx = 0
             THEN [sql |-> <<>>, err |-> "mergeErr"]
             ELSE LET sqln == TrimSuffix(
                                  TrimPrefix(SubSeq(insertSQL, valuesIdx, Len(insertSQL)),
                                             <<"VALUES">>),
                                  <<";">>)
                      more == MergeRest(Tail(rest), k + 1, n)
                  IN  IF more.err # "nil" THEN more
                      ELSE [sql |-> sep \o sqln \o more.sql, err |-> "nil"]

mergeInsert_CommaOffByOne(sqls) ==
    IF Len(sqls) = 0 THEN [sql |-> <<>>, err |-> "mergeErr"]
    ELSE LET sql1 == TrimSuffix(sqls[1], <<";">>)
             rest == MergeRest(Tail(sqls), 1, Len(sqls))
         IN  IF rest.err # "nil" THEN rest
             ELSE [sql |-> sql1 \o rest.sql \o <<";">>, err |-> "nil"]

mergeInsert(sqls) ==
    IF Len(sqls) = 0 THEN [sql |-> <<>>, err |-> "mergeErr"]
    ELSE LET sql1 == TrimSuffix(sqls[1], <<";">>)
             rest == MergeRest(Tail(sqls), 0, Len(sqls))
         IN  IF rest.err # "nil" THEN rest
             ELSE [sql |-> sql1 \o rest.sql \o <<";">>, err |-> "nil"]

-----------------------------------------------------------------------------
\* Source (source.go)

UseDB == <<"USE db", ";">>
Autocommit0 == <<"SET autocommit=0", ";">>
Commit == <<"COMMIT", ";">>
Autocommit1 == <<"SET autocommit=1", ";">>

NoPrev == [result |-> "none", dispatched |-> <<>>, executed |-> <<>>, dryRun |-> FALSE]

RECURSIVE SeqsUpTo(_, _)
SeqsUpTo(S, n) ==
    IF n = 0 THEN {<<>>}
    ELSE LET shorter == SeqsUpTo(S, n - 1)
         IN  shorter \cup {Append(s, x) : s \in shorter, x \in S}

Streams ==
    SeqsUpTo(Kinds, MaxStmts) \cup SeqsUpTo({"ins"}, MaxInserts)

InitSource ==
    /\ items \in Streams
    /\ dsnOk \in BOOLEAN
    /\ mergeSize \in 0..MaxMerge
    /\ dryRun \in BOOLEAN
    /\ readErrAt \in 0..MaxReadErrAt
    /\ pc = "open"
    /\ result = "running"
    /\ pos = 0
    /\ reads = 0
    /\ ssql = <<>>
    /\ insertSQLs = <<>>
    /\ i = 0
    /\ dispatched = <<>>
    /\ executed = <<>>
    /\ errAt = 0
    /\ call = 1
    /\ prev = NoPrev

NotCalled == [sql |-> <<>>, err |-> "none"]

\* buildRowData, writeTableData, sanitize, getTrigger and Dump not running
RowIdle == br_row = <<>> /\ br_out = [ssql |-> <<>>, err |-> "none"]

DataIdle ==
    /\ td_types = <<>>
    /\ td_parseTime = FALSE
    /\ td_rows = <<>>
    /\ td_semi = FALSE
    /\ td_N = 0
    /\ td_queryOk = TRUE
    /\ td_scanErrAt = 0
    /\ td_pc = "idle"
    /\ td_rowId = 0
    /\ td_out = <<>>
    /\ td_result = "running"

SanitizeIdle == sz_in = <<>> /\ sz_out = <<"none">>

TriggerTables == {"t", "u", "v"}

\* allTriggers is a map from table names to trigger lists, nil until it is
\* made; a table without an entry reads as the empty list
NilCache == [made |-> FALSE, lists |-> [tbl \in TriggerTables |-> <<>>]]

\* make(map[string][]triggerStruct)
EmptyCache == [made |-> TRUE, lists |-> [tbl \in TriggerTables |-> <<>>]]

TriggerIdle ==
    /\ allTriggers = NilCache
    /\ trgQueries = 0
    /\ trgCalls = 0
    /\ trgOut = [table |-> "", db |-> "", trigger |-> <<>>, err |-> "none"]

\* the zero value of dumpOption
ZeroOption ==
    [Dbs |-> <<>>, isData |-> FALSE, isAllDB |-> FALSE, tables |-> <<>>,
     isAllTables |-> FALSE, isDropTable |-> FALSE, isUseDb |-> FALSE,
     perDataNumber |-> 0, writer |-> "nil", isCompressed |-> FALSE]

NoReturn == [err |-> "none", compressed |-> FALSE]

OptionIdle == dpOpt = ZeroOption /\ dumpCalls = 0 /\ passed = {} /\ dumpRet = NoReturn

NoFailure == [op |-> "none", db |-> "", table |-> ""]

BodyIdle ==
    /\ dp_in = [opts |-> {}, kind |-> "BASE TABLE", fail |-> NoFailure]
    /\ dp_pc = "begin"
    /\ dp_db = 0
    /\ dp_tbl = 0
    /\ dp_buf = <<>>
    /\ dp_sink = <<>>
    /\ dp_result = "running"

GzipIdle ==
    /\ gz_in = [chunks |-> 0, readOk |-> TRUE, createOk |-> TRUE, writeOk |-> TRUE,
                cleanOk |-> TRUE]
    /\ gz_ppc = "idle"
    /\ gz_cpc = "idle"
    /\ gz_err = "nil"
    /\ gz_left = 0
    /\ gz_pipe = "open"
    /\ gz_perr = "nil"
    /\ gz_ret = "running"
    /\ gz_removed = FALSE

DumpIdle ==
    RowIdle /\ DataIdle /\ SanitizeIdle /\ TriggerIdle /\ OptionIdle /\ BodyIdle /\ GzipIdle

Init ==
    /\ InitSource
    /\ mi_in = <<>>
    /\ mi_out = NotCalled
    /\ DumpIdle

\* `if o.mergeInsert > 1 && strings.HasPrefix(ssql, "INSERT INTO")`
ShouldMerge(s) == mergeSize > 1 /\ HasPrefix(s, <<"INSERT INTO">>)

MoreToAccumulate_OffByOne == i < mergeSize

\* the loop test `i < o.mergeInsert-1`
MoreToAccumulate == i < mergeSize - 1

Return(err) ==
    /\ pc' = "returned"
    /\ result' = err

Exec_IgnoresError(query, fails, next) ==
    /\ dispatched' = Append(dispatched, query)
    /\ executed' = IF dryRun THEN executed ELSE Append(executed, query)
    /\ errAt' = IF ~dryRun /\ fails THEN Len(dispatched) + 1 ELSE errAt
    /\ pc' = next
    /\ result' = IF next = "returned" THEN "nil" ELSE result

Exec_DryRunExecutes(query, fails, next) ==
    /\ dispatched' = Append(dispatched, query)
    /\ executed' = Append(executed, query)
    /\ IF ~dryRun /\ fails
       THEN errAt' = Len(dispatched) + 1 /\ Return("execErr")
       ELSE /\ errAt' = errAt
            /\ pc' = next
            /\ result' = IF next = "returned" THEN "nil" ELSE result

\* dbWrapper.Exec followed by the caller's `if err != nil { return err }`;
\* `fails` is whether sql.DB.Exec would return an error for this query.
Exec(query, fails, next) ==
    /\ dispatched' = Append(dispatched, query)
    /\ IF dryRun
       THEN /\ executed' = executed
            /\ errAt' = errAt
            /\ pc' = next
            /\ result' = IF next = "returned" THEN "nil" ELSE result
       ELSE /\ executed' = Append(executed, query)
            /\ IF fails
               THEN errAt' = Len(dispatched) + 1 /\ Return("execErr")
               ELSE /\ errAt' = errAt
                    /\ pc' = next
                    /\ result' = IF next = "returned" THEN "nil" ELSE result

\* GetDBNameFromDSN and sql.Open
SourceOpen ==
    /\ pc = "open"
    /\ IF dsnOk THEN pc' = "use" /\ result' = result ELSE Return("dsnErr")
    /\ UNCHANGED <<items, dsnOk, mergeSize, dryRun, readErrAt, pos, reads, ssql,
                   insertSQLs, i, dispatched, executed, errAt, call, prev, mi_in, mi_out, dumpVars>>

SourceUse ==
    /\ pc = "use"
    /\ \E fails \in BOOLEAN : Exec(UseDB, fails, "autocommit0")
    /\ UNCHANGED <<items, dsnOk, mergeSize, dryRun, readErrAt, pos, reads, ssql,
                   insertSQLs, i, call, prev, mi_in, mi_out, dumpVars>>

SourceAutocommit0 ==
    /\ pc = "autocommit0"
    /\ \E fails \in BOOLEAN : Exec(Autocommit0, fails, "read")
    /\ UNCHANGED <<items, dsnOk, mergeSize, dryRun, readErrAt, pos, reads, ssql,
                   insertSQLs, i, call, prev, mi_in, mi_out, dumpVars>>

\* the head of the outer loop: read one statement and decide whether to merge
ReadStatement ==
    /\ pc = "read"
    /\ LET r == Read
       IN  /\ reads' = reads + 1
           /\ pos' = r.pos
           /\ IF r.err = "EOF"
              THEN /\ pc' = "commit"
                   /\ UNCHANGED <<result, ssql, insertSQLs, i, errAt>>
              ELSE IF r.err # "nil"
              THEN /\ Return("readErr")
                   /\ errAt' = Len(dispatched)
                   /\ UNCHANGED <<ssql, insertSQLs, i>>
              ELSE /\ ssql' = trim(r.line)
                   /\ result' = result
                   /\ errAt' = errAt
                   /\ IF ShouldMerge(ssql')
                      THEN /\ insertSQLs' = <<ssql'>>
                           /\ i' = 0
                           /\ pc' = "accumulate"
                      ELSE /\ insertSQLs' = <<>>
                           /\ i' = i
                           /\ pc' = "exec"
    /\ UNCHANGED <<items, dsnOk, mergeSize, dryRun, readErrAt, dispatched, executed,
                   call, prev, mi_in, mi_out, dumpVars>>

\* one iteration (or the exit test) of `for i := 0; i < o.mergeInsert-1; i++`
Accumulate ==
    /\ pc = "accumulate"
    /\ IF MoreToAccumulate
       THEN LET r == Read
            IN  /\ reads' = reads + 1
                /\ pos' = r.pos
                /\ IF r.err = "EOF"
                   THEN /\ pc' = "merge"
                        /\ UNCHANGED <<result, insertSQLs, i, errAt>>
                   ELSE IF r.err # "nil"
                   THEN /\ Return("readErr")
                        /\ errAt' = Len(dispatched)
                        /\ UNCHANGED <<insertSQLs, i>>
                   ELSE LET ssql2 == trim(r.line)
                        IN  /\ result' = result
                            /\ errAt' = errAt
                            /\ IF HasPrefix(ssql2, <<"INSERT INTO">>)
                               THEN /\ insertSQLs' = Append(insertSQLs, ssql2)
                                    /\ i' = i + 1
                                    /\ pc' = pc
                               ELSE /\ pc' = "merge"
                                    /\ UNCHANGED <<insertSQLs, i>>
       ELSE /\ pc' = "merge"
            /\ UNCHANGED <<result, pos, reads, insertSQLs, i, errAt>>
    /\ UNCHANGED <<items, dsnOk, mergeSize, dryRun, readErrAt, ssql, dispatched, executed,
                   call, prev, mi_in, mi_out, dumpVars>>

\* ssql, err = mergeInsert(insertSQLs)
Merge ==
    /\ pc = "merge"
    /\ LET m == mergeInsert(insertSQLs)
       IN  IF m.err # "nil"
           THEN Return("mergeErr") /\ ssql' = <<>>
           ELSE pc' = "exec" /\ result' = result /\ ssql' = m.sql
    /\ UNCHANGED <<items, dsnOk, mergeSize, dryRun, readErrAt, pos, reads, insertSQLs, i,
                   dispatched, executed, errAt, call, prev, mi_in, mi_out, dumpVars>>

\* dbWrapper.Exec(ssql) at the foot of the outer loop
ExecStatement ==
    /\ pc = "exec"
    /\ \E fails \in BOOLEAN : Exec(ssql, fails, "read")
    /\ UNCHANGED <<items, dsnOk, mergeSize, dryRun, readErrAt, pos, reads, ssql,
                   insertSQLs, i, call, prev, mi_in, mi_out, dumpVars>>

SourceCommit ==
    /\ pc = "commit"
    /\ \E fails \in BOOLEAN : Exec(Commit, fails, "autocommit1")
    /\ UNCHANGED <<items, dsnOk, mergeSize, dryRun, readErrAt, pos, reads, ssql,
                   insertSQLs, i, call, prev, mi_in, mi_out, dumpVars>>

SourceAutocommit1 ==
    /\ pc = "autocommit1"
    /\ \E fails \in BOOLEAN : Exec(Autocommit1, fails, "returned")
    /\ UNCHANGED <<items, dsnOk, mergeSize, dryRun, readErrAt, pos, reads, ssql,
                   insertSQLs, i, call, prev, mi_in, mi_out, dumpVars>>

\* Source called a second time on the same stream, DSN and merge size, with
\* WithDryRun switched: every local starts afresh.
SourceAgain ==
    /\ pc = "returned"
    /\ call = 1
    /\ call' = 2
    /\ prev' = [result |-> result, dispatched |-> dispatched, executed |-> executed,
                dryRun |-> dryRun]
    /\ dryRun' = ~dryRun
    /\ pc' = "open"
    /\ result' = "running"
    /\ pos' = 0
    /\ reads' = 0
    /\ ssql' = <<>>
    /\ insertSQLs' = <<>>
    /\ i' = 0
    /\ dispatched' = <<>>
    /\ executed' = <<>>
    /\ errAt' = 0
    /\ UNCHANGED <<items, dsnOk, mergeSize, readErrAt, mi_in, mi_out, dumpVars>>

Next ==
    \/ SourceOpen
    \/ SourceUse
    \/ SourceAutocommit0
    \/ ReadStatement
    \/ Accumulate
    \/ Merge
    \/ ExecStatement
    \/ SourceCommit
    \/ SourceAutocommit1
    \/ SourceAgain

Spec == Init /\ [][Next]_vars

-----------------------------------------------------------------------------
\* Source on streams that hold statements for a second table ("insu") and
\* that may end in a statement without its ";" ("tail").

MaxBefore == 2

RestoreStreams ==
    LET whole == SeqsUpTo(Kinds \cup {"insu"}, MaxBefore)
    IN  whole \cup {Append(s, "tail") : s \in whole}

InitRestore ==
    /\ items \in RestoreStreams
    /\ dsnOk \in BOOLEAN
    /\ mergeSize \in 0..MaxMerge
    /\ dryRun \in BOOLEAN
    /\ readErrAt \in 0..MaxReadErrAt
    /\ pc = "open"
    /\ result = "running"
    /\ pos = 0
    /\ reads = 0
    /\ ssql = <<>>
    /\ insertSQLs = <<>>
    /\ i = 0
    /\ dispatched = <<>>
    /\ executed = <<>>
    /\ errAt = 0
    /\ call = 1
    /\ prev = NoPrev
    /\ mi_in = <<>>
    /\ mi_out = NotCalled
    /\ DumpIdle

SpecRestore == InitRestore /\ [][Next]_vars

-----------------------------------------------------------------------------
\* mergeInsert called on its own, on statements as Source hands them over:
\* trimmed, each ending in its ";".

Tables == {"t (c)", "u (c)"}

Tuples == {<<"(1)">>, <<"(2)">>, <<"('", "VALUES", "')">>}

TupleLists == SeqsUpTo(Tuples, 2) \ {<<>>}

\* A statement by structure: INSERT INTO <table> VALUES <rows>; or, for kind
\* "set", INSERT INTO <table> SET c=0; which has no VALUES keyword.
Statements ==
    [kind : {"values"}, table : Tables, rows : TupleLists]
        \cup [kind : {"set"}, table : {"t"}, rows : {<<>>}]

RECURSIVE JoinRows(_)
\* the rows as a dump writes them: (..),\n(..)
JoinRows(rows) ==
    IF Len(rows) = 1 THEN rows[1]
    ELSE rows[1] \o <<",", "\n">> \o JoinRows(Tail(rows))

StmtPrefix(st) == <<"INSERT INTO", " ", st.table, " ", "VALUES">>

StmtValues(st) == <<" ", "\n">> \o JoinRows(st.rows)

StmtText(st) ==
    IF st.kind = "values"
    THEN StmtPrefix(st) \o StmtValues(st) \o <<";">>
    ELSE <<"INSERT INTO", " ", st.table, " ", "SET c=0", ";">>

InitMerge ==
    /\ mi_in \in SeqsUpTo(Statements, MaxBatch)
    /\ mi_out = NotCalled
    /\ DumpIdle
    /\ items = <<>>
    /\ dsnOk = TRUE
    /\ mergeSize = 0
    /\ dryRun = TRUE
    /\ readErrAt = 0
    /\ pc = "open"
    /\ result = "running"
    /\ pos = 0
    /\ reads = 0
    /\ ssql = <<>>
    /\ insertSQLs = <<>>
    /\ i = 0
    /\ dispatched = <<>>
    /\ executed = <<>>
    /\ errAt = 0
    /\ call = 1
    /\ prev = NoPrev

CallMergeInsert ==
    /\ mi_out = NotCalled
    /\ mi_out' = mergeInsert([n \in 1..Len(mi_in) |-> StmtText(mi_in[n])])
    /\ UNCHANGED <<mi_in, sourceVars, dumpVars>>

NextMerge == CallMergeInsert

SpecMerge == InitMerge /\ [][NextMerge]_vars

-----------------------------------------------------------------------------
\* Source and mergeInsert not running

SourceIdle ==
    /\ items = <<>>
    /\ dsnOk = TRUE
    /\ mergeSize = 0
    /\ dryRun = TRUE
    /\ readErrAt = 0
    /\ pc = "open"
    /\ result = "running"
    /\ pos = 0
    /\ reads = 0
    /\ ssql = <<>>
    /\ insertSQLs = <<>>
    /\ i = 0
    /\ dispatched = <<>>
    /\ executed = <<>>
    /\ errAt = 0
    /\ call = 1
    /\ prev = NoPrev
    /\ mi_in = <<>>
    /\ mi_out = NotCalled

restoreVars == <<sourceVars, mergeVars>>

-----------------------------------------------------------------------------
\* sanitize (util.go).  Characters are tokens; the control characters have
\* names: NUL (0x00), BS (backspace), SUB (0x1A).

\* the pairs given to strings.NewReplacer
SanitizeChar(c) ==
    CASE c = "NUL" -> <<"\\", "0">>
      [] c = "'" -> <<"\\", "'">>
      [] c = "\"" -> <<"\\", "\"">>
      [] c = "BS" -> <<"\\", "b">>
      [] c = "\n" -> <<"\\", "n">>
      [] c = "\r" -> <<"\\", "r">>
      [] c = "SUB" -> <<"\\", "Z">>
      [] OTHER -> <<c>>

RECURSIVE sanitize(_)
\* replacer.Replace(input)
sanitize(input) ==
    IF input = <<>> THEN <<>>
    ELSE SanitizeChar(Head(input)) \o sanitize(Tail(input))

\* fmt.Sprintf("'%s'", sanitize(...)): the literal of a character value
CharLiteral(text) == <<"'">> \o sanitize(text) \o <<"'">>

\* the characters sanitize is given: the seven it replaces, the backslash and
\* an ordinary one
Alphabet == {"NUL", "'", "\"", "BS", "\n", "\r", "SUB", "\\", "a"}

MaxStrLen == 2

InitSanitize ==
    /\ sz_in \in SeqsUpTo(Alphabet, MaxStrLen)
    /\ sz_out = <<"none">>
    /\ RowIdle /\ DataIdle /\ TriggerIdle /\ OptionIdle
    /\ SourceIdle /\ BodyIdle /\ GzipIdle

\* the literal written for the character value sz_in
CallSanitize ==
    /\ sz_out = <<"none">>
    /\ sz_out' = CharLiteral(sz_in)
    /\ UNCHANGED <<sz_in, rowVars, dataVars, triggerVars, optionVars, restoreVars, bodyVars, gzipVars>>

NextSanitize == CallSanitize

SpecSanitize == InitSanitize /\ [][NextSanitize]_vars

-----------------------------------------------------------------------------
\* buildRowData (mysqldump.go).  A column value is its Go representation
\* ("nil", "bytes" for []byte, "native" for time.Time, int64, ...) and its
\* payload, the text of the value.

IntTypes == {"TINYINT", "SMALLINT", "MEDIUMINT", "INT", "INTEGER", "BIGINT"}
FloatTypes == {"FLOAT", "DOUBLE"}
DecimalTypes == {"DECIMAL", "DEC"}
DateTimeTypes == {"DATETIME", "TIMESTAMP"}
CharTypes == {"CHAR", "VARCHAR", "TINYTEXT", "TEXT", "MEDIUMTEXT", "LONGTEXT"}
BinaryTypes == {"BIT", "BINARY", "VARBINARY", "TINYBLOB", "BLOB", "MEDIUMBLOB", "LONGBLOB"}
QuotedTypes == {"ENUM", "SET", "JSON"}
BoolTypes == {"BOOL", "BOOLEAN"}

NotStripped(tok) == tok \notin {"UNSIGNED", " "}

\* strings.Replace(Type, "UNSIGNED", "", -1), then strings.Replace(Type, " ", "", -1);
\* the type name is a sequence of words and spaces, the result the words left
NormalizeType(typeName) == SelectSeq(typeName, NotStripped)

\* the body of the switch for a value that is not nil: the literal, or
\* "bail" for `return "", err` with err still nil, or "unsupported"
FormatValue(col, typeName) ==
    LET norm == NormalizeType(typeName)
        Type == IF Len(norm) = 1 THEN norm[1] ELSE "?"
        lit(text) == [text |-> text, status |-> "ok"]
        bail == [text |-> <<>>, status |-> "bail"]
    IN  CASE Type \in IntTypes \cup FloatTypes \cup DecimalTypes -> lit(<<col.payload>>)
          [] Type = "DATE" \/ Type \in DateTimeTypes ->
                IF col.rep = "native" THEN lit(<<"'", col.payload, "'">>) ELSE bail
          [] Type = "TIME" ->
                IF col.rep = "bytes" THEN lit(<<"'", col.payload, "'">>) ELSE bail
          [] Type = "YEAR" ->
                IF col.rep = "bytes" THEN lit(<<col.payload>>) ELSE bail
          [] Type \in CharTypes -> lit(CharLiteral(<<col.payload>>))
          [] Type \in BinaryTypes -> lit(<<"0x", col.payload>>)
          [] Type \in QuotedTypes -> lit(<<"'", col.payload, "'">>)
          [] Type \in BoolTypes -> lit(<<col.payload>>)
          [] OTHER -> [text |-> <<>>, status |-> "unsupported"]

FormatColumn_TypeFirst(col, typeName) ==
    LET f == FormatValue(col, typeName)
    IN  IF f.status = "ok" /\ col.rep = "nil" THEN [text |-> <<"NULL">>, status |-> "ok"] ELSE f

\* one iteration of the loop over the row: `if col == nil` before the switch
FormatColumn(col, typeName) ==
    IF col.rep = "nil"
    THEN [text |-> <<"NULL">>, status |-> "ok"]
    ELSE FormatValue(col, typeName)

RECURSIVE BuildFrom(_, _, _, _)
\* the loop `for i, col := range row` from column n on; sofar is ssql
BuildFrom(row, columnTypes, n, sofar) ==
    IF n > Len(row) THEN [ssql |-> sofar, err |-> "nil"]
    ELSE LET f == FormatColumn(row[n], columnTypes[n])
         IN  CASE f.status = "bail" -> [ssql |-> <<>>, err |-> "nil"]
               [] f.status = "unsupported" -> [ssql |-> <<>>, err |-> "unsupported"]
               [] OTHER ->
                    BuildFrom(row, columnTypes, n + 1,
                              sofar \o f.text \o (IF n < Len(row) THEN <<",">> ELSE <<>>))

buildRowData(row, columnTypes) == BuildFrom(row, columnTypes, 1, <<>>)

\* the text of the value in row r, column c
Cell(r, c) == "r" \o ToString(r) \o "c" \o ToString(c)

DeclTypes ==
    {<<"INT">>, <<"UNSIGNED", " ", "INT">>, <<"DATE">>, <<"TIME">>, <<"VARCHAR">>,
     <<"GEOMETRY">>}

Reps == {"nil", "bytes", "native"}

MaxCols == 2

InitRow ==
    /\ br_row \in SeqsUpTo([type : DeclTypes, rep : Reps], MaxCols)
    /\ br_out = [ssql |-> <<>>, err |-> "none"]
    /\ DataIdle /\ SanitizeIdle /\ TriggerIdle /\ OptionIdle
    /\ SourceIdle /\ BodyIdle /\ GzipIdle

CallBuildRowData ==
    /\ br_out.err = "none"
    /\ br_out' = buildRowData(
                    [c \in DOMAIN br_row |-> [rep |-> br_row[c].rep, payload |-> Cell(1, c)]],
                    [c \in DOMAIN br_row |-> br_row[c].type])
    /\ UNCHANGED <<br_row, dataVars, sanitizeVars, triggerVars, optionVars, restoreVars, bodyVars, gzipVars>>

-----------------------------------------------------------------------------
\* writeTableData (mysqldump.go)

MaxRows == 3
MaxN == 3

ColumnSets ==
    {<<<<"INT">>>>, <<<<"DATE">>>>, <<<<"GEOMETRY">>>>,
     <<<<"INT">>, <<"VARCHAR">>>>,
     <<<<"UNSIGNED", " ", "INT">>, <<"GEOMETRY">>>>}

DataHeader ==
    <<"-- ----", "\n", "--Dumping data for table t", "\n", "-- ----", "\n",
      "LOCK TABLES t WRITE", ";", "\n",
      "/*!40000 ALTER TABLE t DISABLE KEYS */", ";", "\n">>

DataFooter_NoUnlock == <<";", "\n">>

\* what is written after the loop
DataFooter ==
    <<";", "\n", "/*!40000 ALTER TABLE t ENABLE KEYS */", ";", "\n",
      "UNLOCK TABLES", ";", "\n", "\n">>

\* the representation the driver gives the value of a column of this type
RepOf(typeName) ==
    IF NormalizeType(typeName) \in {<<"DATE">>, <<"DATETIME">>, <<"TIMESTAMP">>}
    THEN IF td_parseTime THEN "native" ELSE "bytes"
    ELSE "bytes"

\* the row lineRows.Scan fills in for the r-th row of the cursor
ScannedRow(r) ==
    [c \in DOMAIN td_types |->
        [rep |-> IF td_rows[r][c] THEN "nil" ELSE RepOf(td_types[c]),
         payload |-> IF td_semi /\ td_types[c] = <<"VARCHAR">> THEN ";" ELSE Cell(r, c)]]

StartsStatement_ModuloOffByOne ==
    td_rowId = 0 \/ td_N < 2 \/ (td_rowId + 1) % td_N = 0

\* `rowId == 0 || perDataNumber < 2 || rowId%perDataNumber == 0`
StartsStatement ==
    td_rowId = 0 \/ td_N < 2 \/ td_rowId % td_N = 0

InitData ==
    /\ td_types \in ColumnSets
    /\ td_parseTime \in BOOLEAN
    /\ td_rows \in SeqsUpTo([DOMAIN td_types -> BOOLEAN], MaxRows)
    /\ td_semi = FALSE
    /\ td_N \in 0..MaxN
    /\ td_queryOk \in BOOLEAN
    /\ td_scanErrAt \in 0..Len(td_rows)
    /\ td_pc = "begin"
    /\ td_rowId = 0
    /\ td_out = <<>>
    /\ td_result = "running"
    /\ RowIdle /\ SanitizeIdle /\ TriggerIdle /\ OptionIdle
    /\ SourceIdle /\ BodyIdle /\ GzipIdle

DataReturn(err) ==
    /\ td_pc' = "returned"
    /\ td_result' = err

\* the head of writeTableData up to the loop
WriteDataBegin ==
    /\ td_pc = "begin"
    /\ td_out' = td_out \o DataHeader
    /\ IF td_queryOk THEN td_pc' = "rows" /\ td_result' = td_result
       ELSE DataReturn("queryErr")
    /\ UNCHANGED <<td_types, td_parseTime, td_rows, td_semi, td_N, td_queryOk, td_scanErrAt,
                   td_rowId, rowVars, sanitizeVars, triggerVars, optionVars, restoreVars, bodyVars, gzipVars>>

\* one pass through the body of `for lineRows.Next()`
WriteDataRow ==
    /\ td_pc = "rows"
    /\ td_rowId < Len(td_rows)
    /\ LET starts == StartsStatement
           ssql0 == IF starts
                    THEN (IF td_rowId > 0 THEN <<";", "\n">> ELSE <<>>) \o InsertHead
                    ELSE <<>>
           out1 == IF starts THEN td_out ELSE td_out \o <<",", "\n">>
           built == buildRowData(ScannedRow(td_rowId + 1), td_types)
       IN  IF td_scanErrAt = td_rowId + 1
           THEN /\ td_out' = out1
                /\ DataReturn("scanErr")
                /\ td_rowId' = td_rowId
           ELSE IF built.err # "nil"
           THEN /\ td_out' = out1
                /\ DataReturn(built.err)
                /\ td_rowId' = td_rowId
           ELSE /\ td_out' = out1 \o ssql0 \o <<"(">> \o built.ssql \o <<")">>
                /\ td_rowId' = td_rowId + 1
                /\ UNCHANGED <<td_pc, td_result>>
    /\ UNCHANGED <<td_types, td_parseTime, td_rows, td_semi, td_N, td_queryOk, td_scanErrAt,
                   rowVars, sanitizeVars, triggerVars, optionVars, restoreVars, bodyVars, gzipVars>>

\* lineRows.Next() is false: the lines after the loop
WriteDataEnd ==
    /\ td_pc = "rows"
    /\ td_rowId = Len(td_rows)
    /\ td_out' = td_out \o DataFooter
    /\ DataReturn("nil")
    /\ UNCHANGED <<td_types, td_parseTime, td_rows, td_semi, td_N, td_queryOk, td_scanErrAt,
                   td_rowId, rowVars, sanitizeVars, triggerVars, optionVars, restoreVars, bodyVars, gzipVars>>

-----------------------------------------------------------------------------
\* getTrigger (mysqldump.go)

Databases == {"a", "b"}

\* the rows SHOW TRIGGERS returns in the database the connection is in
ShowTriggers(db) ==
    IF db = "a"
    THEN <<[Table |-> "t", Trigger |-> "a1"], [Table |-> "u", Trigger |-> "a2"],
           [Table |-> "t", Trigger |-> "a3"]>>
    ELSE <<[Table |-> "t", Trigger |-> "b1"]>>

CacheHit_NonEmpty == allTriggers.made /\ allTriggers # EmptyCache

\* `if allTriggers != nil`
CacheHit == allTriggers.made

RECURSIVE FillCache(_, _, _)
\* the loop `for trgs.Next()` over the first n rows: each appended to the list
\* of its table
FillCache(cache, rows, n) ==
    IF n = 0 THEN cache
    ELSE LET before == FillCache(cache, rows, n - 1)
             row == rows[n]
         IN  [before EXCEPT !.lists[row.Table] = Append(@, row)]

MaxCalls == 4

InitTrigger ==
    /\ TriggerIdle
    /\ RowIdle /\ DataIdle /\ SanitizeIdle /\ OptionIdle
    /\ SourceIdle /\ BodyIdle /\ GzipIdle

\* getTrigger(db, table) on a connection in database db, from the cache as
\* it is: what it leaves in allTriggers, what it returns and whether it issued
\* the query; the query fails, or the scan of row scanErrAt fails, or neither
\* (scanErrAt = 0)
getTrigger(table, db, queryOk, scanErrAt) ==
    LET rows == ShowTriggers(db)
        full == FillCache(EmptyCache, rows, Len(rows))
    IN  IF CacheHit
        THEN [cache |-> allTriggers, trigger |-> allTriggers.lists[table],
              err |-> "nil", queried |-> 0]
        ELSE IF ~queryOk
        THEN [cache |-> EmptyCache, trigger |-> <<>>, err |-> "queryErr", queried |-> 1]
        ELSE IF scanErrAt > 0
        THEN [cache |-> FillCache(EmptyCache, rows, scanErrAt - 1), trigger |-> <<>>,
              err |-> "scanErr", queried |-> 1]
        ELSE [cache |-> full, trigger |-> full.lists[table], err |-> "nil",
              queried |-> 1]

\* one call of getTrigger
GetTrigger ==
    /\ trgCalls < MaxCalls
    /\ \E table \in TriggerTables, db \in Databases, queryOk \in BOOLEAN :
       \E scanErrAt \in 0..Len(ShowTriggers(db)) :
         LET got == getTrigger(table, db, queryOk, scanErrAt)
         IN  /\ allTriggers' = got.cache
             /\ trgQueries' = trgQueries + got.queried
             /\ trgOut' = [table |-> table, db |-> db, trigger |-> got.trigger,
                           err |-> got.err]
    /\ trgCalls' = trgCalls + 1
    /\ UNCHANGED <<rowVars, dataVars, sanitizeVars, optionVars, restoreVars, bodyVars, gzipVars>>

NextTrigger == GetTrigger

SpecTrigger == InitTrigger /\ [][NextTrigger]_vars

-----------------------------------------------------------------------------
\* Dump and the head of dumpOption.dump (mysqldump.go): the options a call
\* runs with

DumpOptions ==
    {"WithDropTable", "WithData", "WithAllDatabases", "WithUseDb", "WithDBs",
     "WithTables", "WithMultiInsert", "WithWriter", "WithCompression"}

\* the database named in the DSN, and what getDBs returns
DsnDb == "a"
AllDbs == <<"a", "b">>

\* opt(o) for one option
ApplyOption(o, opt) ==
    CASE opt = "WithDropTable" -> [o EXCEPT !.isDropTable = TRUE]
      [] opt = "WithData" -> [o EXCEPT !.isData = TRUE]
      [] opt = "WithAllDatabases" -> [o EXCEPT !.isAllDB = TRUE]
      [] opt = "WithUseDb" -> [o EXCEPT !.isUseDb = TRUE]
      [] opt = "WithDBs" -> [o EXCEPT !.Dbs = <<"b">>]
      [] opt = "WithTables" -> [o EXCEPT !.tables = <<"t">>]
      [] opt = "WithMultiInsert" -> [o EXCEPT !.perDataNumber = 2]
      [] opt = "WithWriter" -> [o EXCEPT !.writer = "file"]
      [] opt = "WithWriterNotFile" -> [o EXCEPT !.writer = "buffer"]
      [] opt = "WithCompression" -> [o EXCEPT !.isCompressed = TRUE]

RECURSIVE ApplyOptions(_, _)
\* `for _, opt := range opts { opt(o) }`; the options of the model set
\* different fields, so the order they are passed in makes no difference
ApplyOptions(o, opts) ==
    IF opts = {} THEN o
    ELSE LET opt == CHOOSE x \in opts : TRUE
         IN  ApplyOptions(ApplyOption(o, opt), opts \ {opt})

\* the defaults dump fills in, then what it derives before the loop over Dbs
ApplyDefaults(o) ==
    LET o1 == IF Len(o.Dbs) = 0 THEN [o EXCEPT !.Dbs = <<DsnDb>>] ELSE o
        o2 == IF Len(o1.tables) = 0 THEN [o1 EXCEPT !.isAllTables = TRUE] ELSE o1
        o3 == IF o2.writer = "nil"
              THEN [o2 EXCEPT !.writer = "stdout", !.isCompressed = FALSE]
              ELSE o2
        o4 == IF o3.isAllDB THEN [o3 EXCEPT !.Dbs = AllDbs] ELSE o3
    IN  IF Len(o4.Dbs) > 1 THEN [o4 EXCEPT !.isUseDb = TRUE] ELSE o4

\* the options of a call that starts from o and is passed opts
OptionsInEffect(o, opts) == ApplyDefaults(ApplyOptions(o, opts))

\* the receiver of dump: `dpOpt.dump(dsn, opts...)`
Receiver == dpOpt

MaxDumps == 2

InitOptions ==
    /\ OptionIdle
    /\ RowIdle /\ DataIdle /\ SanitizeIdle /\ TriggerIdle
    /\ SourceIdle /\ BodyIdle /\ GzipIdle

\* one call Dump(dsn, opts...) that runs to its end
CallDump ==
    /\ dumpCalls < MaxDumps
    /\ \E opts \in SUBSET DumpOptions :
         /\ passed' = opts
         /\ dpOpt' = OptionsInEffect(Receiver, opts)
         /\ UNCHANGED dumpRet
    /\ dumpCalls' = dumpCalls + 1
    /\ UNCHANGED <<rowVars, dataVars, sanitizeVars, triggerVars, restoreVars, bodyVars, gzipVars>>

NextOptions == CallDump

SpecOptions == InitOptions /\ [][NextOptions]_vars

-----------------------------------------------------------------------------
\* Dump (mysqldump.go): what it returns, and the compression after dump

\* the options passed in these calls: a writer, the compression, the data;
\* WithWriterNotFile is WithWriter with a writer that is not an *os.File
CompressionOptions == {"WithWriter", "WithWriterNotFile", "WithCompression", "WithData"}

\* the body of Dump after dump has run with the options o: dump fails, or
\* gz.Compress fails, or neither
DumpOutcome(o, dumpOk, gzOk) ==
    IF ~dumpOk THEN [err |-> "dumpErr", compressed |-> FALSE]
    ELSE IF o.isCompressed
    THEN IF o.writer \in {"file", "stdout"}
         THEN IF gzOk THEN [err |-> "nil", compressed |-> TRUE]
              ELSE [err |-> "gzErr", compressed |-> FALSE]
         ELSE [err |-> "nil", compressed |-> FALSE]
    ELSE [err |-> "nil", compressed |-> FALSE]

InitDumpCall ==
    /\ OptionIdle
    /\ RowIdle /\ DataIdle /\ SanitizeIdle /\ TriggerIdle
    /\ SourceIdle /\ BodyIdle /\ GzipIdle

\* one call Dump(dsn, opts...) with one writer at most, up to its return
DumpCall ==
    /\ dumpCalls < MaxDumps
    /\ \E opts \in SUBSET CompressionOptions, dumpOk \in BOOLEAN, gzOk \in BOOLEAN :
         /\ ~({"WithWriter", "WithWriterNotFile"} \subseteq opts)
         /\ passed' = opts
         /\ dpOpt' = OptionsInEffect(Receiver, opts)
         /\ dumpRet' = DumpOutcome(dpOpt', dumpOk, gzOk)
    /\ dumpCalls' = dumpCalls + 1
    /\ UNCHANGED <<rowVars, dataVars, sanitizeVars, triggerVars, restoreVars, bodyVars, gzipVars>>

NextDumpCall == DumpCall

SpecDumpCall == InitDumpCall /\ [][NextDumpCall]_vars

-----------------------------------------------------------------------------
\* dumpOption.dump (mysqldump.go): the sections it writes.  A section is what
\* one piece of the code writes for one table or database; its body tells how
\* far the piece came.

BodyOptions == {"WithDropTable", "WithData", "WithAllDatabases", "WithUseDb", "WithDBs"}

TableKinds == {"BASE TABLE", "VIEW", "SYSTEM VIEW"}

\* what getAllTables returns in a database
AllTables(db) == IF db = "a" THEN <<"t", "u", "v">> ELSE <<"t">>

\* TABLE_TYPE of a table in INFORMATION_SCHEMA.TABLES
TableType(table) ==
    CASE table = "t" -> "BASE TABLE"
      [] table = "v" -> "VIEW"
      [] OTHER -> dp_in.kind

getTableType_OtherIsTable(table) ==
    IF TableType(table) = "VIEW" THEN "VIEW" ELSE "TABLE"

\* getTableType when its query succeeds
getTableType(table) ==
    CASE TableType(table) = "BASE TABLE" -> "TABLE"
      [] TableType(table) = "VIEW" -> "VIEW"
      [] OTHER -> ""

\* the operation that fails in a run, if any
FailPoints ==
    {NoFailure, [op |-> "footer", db |-> "", table |-> ""],
     [op |-> "view", db |-> "a", table |-> "v"]}
    \cup [op : {"use", "tables"}, db : Databases, table : {""}]
    \cup [op : {"type", "struct", "data", "trigger"}, db : Databases, table : {"t", "u"}]

Fails(op, db, table) == dp_in.fail = [op |-> op, db |-> db, table |-> table]

Section(sec, db, table, body) == [sec |-> sec, db |-> db, table |-> table, body |-> body]

\* the tables of the inner loop
TablesOf(db) == IF dpOpt.isAllTables THEN AllTables(db) ELSE dpOpt.tables

TableSections_DataFirst(db, table) ==
    LET drop == IF dpOpt.isDropTable THEN <<Section("drop", db, table, <<>>)>> ELSE <<>>
        got == getTrigger(table, db, ~Fails("trigger", db, table), 0)
        none == [cache |-> allTriggers, trigger |-> <<>>, err |-> "nil", queried |-> 0]
    IN  IF dpOpt.isData
        THEN [written |-> drop \o <<Section("data", db, table, <<"head", "rows", "foot">>),
                                    Section("struct", db, table, <<"head", "sql">>)>>,
              err |-> "nil", got |-> none, called |-> 0]
        ELSE [written |-> drop \o <<Section("struct", db, table, <<"head", "sql">>)>>,
              err |-> "nil", got |-> none, called |-> 0]

\* the body of `if tt == "TABLE"`: what it writes, the error it returns with
\* and what its getTrigger call does
TableSections(db, table) ==
    LET drop == IF dpOpt.isDropTable THEN <<Section("drop", db, table, <<>>)>> ELSE <<>>
        structHead == drop \o <<Section("struct", db, table, <<"head">>)>>
        struct == drop \o <<Section("struct", db, table, <<"head", "sql">>)>>
        dataHead == struct \o <<Section("data", db, table, <<"head">>)>>
        data == IF dpOpt.isData
                THEN struct \o <<Section("data", db, table, <<"head", "rows", "foot">>)>>
                ELSE struct
        got == getTrigger(table, db, ~Fails("trigger", db, table), 0)
        none == [cache |-> allTriggers, trigger |-> <<>>, err |-> "nil", queried |-> 0]
        names == [n \in DOMAIN got.trigger |-> got.trigger[n].Trigger]
    IN  IF Fails("struct", db, table)
        THEN [written |-> structHead, err |-> "structErr", got |-> none, called |-> 0]
        ELSE IF dpOpt.isData /\ Fails("data", db, table)
        THEN [written |-> dataHead, err |-> "dataErr", got |-> none, called |-> 0]
        ELSE IF got.err # "nil"
        THEN [written |-> data, err |-> got.err, got |-> got, called |-> 1]
        ELSE [written |-> data \o (IF Len(names) > 0
                                   THEN <<Section("trigger", db, table, names)>>
                                   ELSE <<>>),
              err |-> "nil", got |-> got, called |-> 1]

\* the body of `if tt == "VIEW"`
ViewSections(db, table) ==
    LET drop == IF dpOpt.isDropTable THEN <<Section("dropView", db, table, <<>>)>> ELSE <<>>
        none == [cache |-> allTriggers, trigger |-> <<>>, err |-> "nil", queried |-> 0]
    IN  IF Fails("view", db, table)
        THEN [written |-> drop \o <<Section("view", db, table, <<"head">>)>>,
              err |-> "viewErr", got |-> none, called |-> 0]
        ELSE [written |-> drop \o <<Section("view", db, table, <<"head", "sql">>)>>,
              err |-> "nil", got |-> none, called |-> 0]

\* one pass through the body of `for _, table := range tables`
dumpTable(db, table) ==
    LET none == [cache |-> allTriggers, trigger |-> <<>>, err |-> "nil", queried |-> 0]
        tt == getTableType(table)
    IN  IF Fails("type", db, table)
        THEN [written |-> <<>>, err |-> "typeErr", got |-> none, called |-> 0]
        ELSE CASE tt = "TABLE" -> TableSections(db, table)
               [] tt = "VIEW" -> ViewSections(db, table)
               [] OTHER -> [written |-> <<>>, err |-> "nil", got |-> none, called |-> 0]

\* dump starts on the zero dumpOption of a new process, or on what an earlier
\* Dump call left in dpOpt: a call with at most one option that returned when
\* its first USE failed
InitDump ==
    /\ dp_in \in [opts : SUBSET BodyOptions, kind : TableKinds, fail : FailPoints]
    /\ dumpCalls \in {0, 1}
    /\ passed \in IF dumpCalls = 0 THEN {{}} ELSE {{}} \cup {{opt} : opt \in BodyOptions}
    /\ dpOpt = IF dumpCalls = 0 THEN ZeroOption ELSE OptionsInEffect(ZeroOption, passed)
    /\ dumpRet = NoReturn
    /\ dp_pc = "begin"
    /\ dp_db = 0
    /\ dp_tbl = 0
    /\ dp_buf = <<>>
    /\ dp_sink = <<>>
    /\ dp_result = "running"
    /\ RowIdle /\ DataIdle /\ SanitizeIdle /\ TriggerIdle
    /\ SourceIdle /\ GzipIdle

DumpReturn_NoFlush(err, written) ==
    /\ dp_pc' = "returned"
    /\ dp_result' = err
    /\ dp_buf' = written
    /\ dp_sink' = dp_sink

\* `return err` with the deferred buf.Flush()
DumpReturn(err, written) ==
    /\ dp_pc' = "returned"
    /\ dp_result' = err
    /\ dp_buf' = written
    /\ dp_sink' = written

\* the head of dump: the options, the defaults, the connection, the header
DumpBegin ==
    /\ dp_pc = "begin"
    /\ dpOpt' = OptionsInEffect(Receiver, dp_in.opts)
    /\ passed' = dp_in.opts
    /\ dumpCalls' = dumpCalls + 1
    /\ dp_buf' = <<Section("header", "", "", <<>>)>>
    /\ dp_db' = 1
    /\ dp_pc' = "db"
    /\ UNCHANGED <<dp_in, dp_tbl, dp_sink, dp_result, dumpRet, rowVars, dataVars,
                   sanitizeVars, triggerVars, restoreVars, gzipVars>>

\* the head of the loop over o.Dbs: USE, the tables, the USE statement
DumpDb ==
    /\ dp_pc = "db"
    /\ dp_db <= Len(dpOpt.Dbs)
    /\ LET db == dpOpt.Dbs[dp_db]
       IN  IF Fails("use", db, "")
           THEN DumpReturn("useErr", dp_buf) /\ UNCHANGED dp_tbl
           ELSE IF dpOpt.isAllTables /\ Fails("tables", db, "")
           THEN DumpReturn("tablesErr", dp_buf) /\ UNCHANGED dp_tbl
           ELSE /\ dp_buf' = dp_buf \o (IF dpOpt.isUseDb
                                        THEN <<Section("use", db, "", <<>>)>>
                                        ELSE <<>>)
                /\ dp_tbl' = 1
                /\ dp_pc' = "table"
                /\ UNCHANGED <<dp_sink, dp_result>>
    /\ UNCHANGED <<dp_in, dp_db, optionVars, rowVars, dataVars, sanitizeVars,
                   triggerVars, restoreVars, gzipVars>>

\* the loop over the tables of a database, one table
DumpTable ==
    /\ dp_pc = "table"
    /\ dp_tbl <= Len(TablesOf(dpOpt.Dbs[dp_db]))
    /\ LET db == dpOpt.Dbs[dp_db]
           table == TablesOf(db)[dp_tbl]
           did == dumpTable(db, table)
       IN  /\ allTriggers' = did.got.cache
           /\ trgQueries' = trgQueries + did.got.queried
           /\ trgCalls' = trgCalls + did.called
           /\ trgOut' = IF did.called = 1
                        THEN [table |-> table, db |-> db, trigger |-> did.got.trigger,
                              err |-> did.got.err]
                        ELSE trgOut
           /\ IF did.err # "nil"
              THEN DumpReturn(did.err, dp_buf \o did.written) /\ UNCHANGED dp_tbl
              ELSE /\ dp_buf' = dp_buf \o did.written
                   /\ dp_tbl' = dp_tbl + 1
                   /\ UNCHANGED <<dp_pc, dp_sink, dp_result>>
    /\ UNCHANGED <<dp_in, dp_db, optionVars, rowVars, dataVars, sanitizeVars,
                   restoreVars, gzipVars>>

\* the tables of a database are done: on to the next database
DumpDbDone ==
    /\ dp_pc = "table"
    /\ dp_tbl > Len(TablesOf(dpOpt.Dbs[dp_db]))
    /\ dp_db' = dp_db + 1
    /\ dp_pc' = "db"
    /\ UNCHANGED <<dp_in, dp_tbl, dp_buf, dp_sink, dp_result, optionVars, rowVars,
                   dataVars, sanitizeVars, triggerVars, restoreVars, gzipVars>>

\* after the loop over o.Dbs: the footer
DumpEnd ==
    /\ dp_pc = "db"
    /\ dp_db > Len(dpOpt.Dbs)
    /\ IF Fails("footer", "", "")
       THEN DumpReturn("footerErr", dp_buf)
       ELSE DumpReturn("nil", dp_buf \o <<Section("footer", "", "", <<>>)>>)
    /\ UNCHANGED <<dp_in, dp_db, dp_tbl, optionVars, rowVars, dataVars, sanitizeVars,
                   triggerVars, restoreVars, gzipVars>>

NextDump ==
    \/ DumpBegin
    \/ DumpDb
    \/ DumpTable
    \/ DumpDbDone
    \/ DumpEnd

SpecDump == InitDump /\ [][NextDump]_vars

-----------------------------------------------------------------------------
\* Options.Compress (extensions/gzip.go).  The goroutine copies the file
\* through the compressor into the pipe; Compress copies the pipe into the
\* .gz file.  Both assign the same variable err, without synchronisation: each
\* of their reads and writes of it is a step of its own.

MaxChunks == 1

\* after os.Open has succeeded and the goroutine has been started
InitCompress ==
    /\ gz_in \in [chunks : 0..MaxChunks, readOk : BOOLEAN, createOk : BOOLEAN,
                  writeOk : BOOLEAN, cleanOk : BOOLEAN]
    /\ gz_ppc = "read"
    /\ gz_cpc = "create"
    /\ gz_err = "nil"
    /\ gz_left = gz_in.chunks
    /\ gz_pipe = "open"
    /\ gz_perr = "nil"
    /\ gz_ret = "running"
    /\ gz_removed = FALSE
    /\ RowIdle /\ DataIdle /\ SanitizeIdle /\ TriggerIdle /\ OptionIdle
    /\ SourceIdle /\ BodyIdle

\* Compress has returned: its deferred f.Close() has run
FileClosed == gz_cpc = "returned"

\* io.Copy(gzw, f) reads the file: there is more to write to the pipe, or the
\* copy returns and its error is assigned to err.  A read of the closed file
\* fails.
ProducerRead ==
    /\ gz_ppc = "read"
    /\ IF FileClosed
       THEN /\ gz_err' = "closedErr"
            /\ gz_ppc' = "check"
            /\ UNCHANGED gz_perr
       ELSE IF gz_left > 0
       THEN /\ gz_ppc' = "write"
            /\ UNCHANGED <<gz_err, gz_perr>>
       ELSE /\ gz_err' = IF gz_in.readOk THEN "nil" ELSE "readErr"
            /\ gz_perr' = IF gz_in.readOk THEN gz_perr ELSE "readErr"
            /\ gz_ppc' = "check"
    /\ UNCHANGED <<gz_in, gz_cpc, gz_left, gz_pipe, gz_ret, gz_removed, rowVars, dataVars,
                   sanitizeVars, triggerVars, optionVars, restoreVars, bodyVars>>

\* a write to the pipe meets the read of io.Copy(gf, r); the write of what was
\* read to the .gz file can fail, and the copy then returns
PipeTransfer ==
    /\ gz_ppc \in {"write", "trailer"}
    /\ gz_cpc = "copy"
    /\ gz_in.createOk
    /\ IF gz_ppc = "write"
       THEN gz_left' = gz_left - 1 /\ gz_ppc' = "read"
       ELSE gz_left' = gz_left /\ gz_ppc' = "close"
    /\ IF gz_in.writeOk
       THEN UNCHANGED <<gz_err, gz_cpc>>
       ELSE gz_err' = "writeErr" /\ gz_cpc' = "checkCopy"
    /\ UNCHANGED <<gz_in, gz_pipe, gz_perr, gz_ret, gz_removed, rowVars, dataVars,
                   sanitizeVars, triggerVars, optionVars, restoreVars, bodyVars>>

\* `err != nil` in the goroutine; with a nil err gzw.Close() follows, which
\* writes the end of the stream to the pipe
ProducerCheck ==
    /\ gz_ppc = "check"
    /\ gz_ppc' = IF gz_err # "nil" THEN "closeWithError" ELSE "trailer"
    /\ UNCHANGED <<gz_in, gz_cpc, gz_err, gz_left, gz_pipe, gz_perr, gz_ret, gz_removed,
                   rowVars, dataVars, sanitizeVars, triggerVars, optionVars, restoreVars,
                   bodyVars>>

\* w.CloseWithError(err), or w.CloseWithError(gzw.Close()); a nil error closes
\* the pipe with EOF
ProducerClose ==
    /\ gz_ppc \in {"closeWithError", "close"}
    /\ gz_ppc' = "done"
    /\ gz_pipe' = IF gz_ppc = "closeWithError" /\ gz_err # "nil" THEN gz_err ELSE "eof"
    /\ UNCHANGED <<gz_in, gz_cpc, gz_err, gz_left, gz_perr, gz_ret, gz_removed, rowVars,
                   dataVars, sanitizeVars, triggerVars, optionVars, restoreVars, bodyVars>>

\* `gf, err := os.Create(...)`
ConsumerCreate ==
    /\ gz_cpc = "create"
    /\ gz_err' = IF gz_in.createOk THEN "nil" ELSE "createErr"
    /\ gz_cpc' = "checkCreate"
    /\ UNCHANGED <<gz_in, gz_ppc, gz_left, gz_pipe, gz_perr, gz_ret, gz_removed, rowVars,
                   dataVars, sanitizeVars, triggerVars, optionVars, restoreVars, bodyVars>>

\* each `err != nil` of Compress; after the last one `return nil`
ConsumerCheck ==
    /\ gz_cpc \in {"checkCreate", "checkCopy", "checkClean"}
    /\ IF gz_err # "nil"
       THEN gz_cpc' = "return" /\ UNCHANGED gz_ret
       ELSE CASE gz_cpc = "checkCreate" -> gz_cpc' = "copy" /\ UNCHANGED gz_ret
              [] gz_cpc = "checkCopy" -> gz_cpc' = "clean" /\ UNCHANGED gz_ret
              [] OTHER -> gz_cpc' = "returned" /\ gz_ret' = "nil"
    /\ UNCHANGED <<gz_in, gz_ppc, gz_err, gz_left, gz_pipe, gz_perr, gz_removed, rowVars,
                   dataVars, sanitizeVars, triggerVars, optionVars, restoreVars, bodyVars>>

\* io.Copy(gf, r) returns without a write of the goroutine: the pipe has been
\* closed, or gf is the nil file of a failed os.Create
ConsumerCopyEnd ==
    /\ gz_cpc = "copy"
    /\ ~gz_in.createOk \/ gz_pipe # "open"
    /\ gz_err' = IF ~gz_in.createOk THEN "writeErr"
                 ELSE IF gz_pipe = "eof" THEN "nil" ELSE gz_pipe
    /\ gz_cpc' = "checkCopy"
    /\ UNCHANGED <<gz_in, gz_ppc, gz_left, gz_pipe, gz_perr, gz_ret, gz_removed, rowVars,
                   dataVars, sanitizeVars, triggerVars, optionVars, restoreVars, bodyVars>>

\* `err = opts.clean()`: os.Remove of the uncompressed file
ConsumerClean ==
    /\ gz_cpc = "clean"
    /\ gz_err' = IF gz_in.cleanOk THEN "nil" ELSE "cleanErr"
    /\ gz_removed' = gz_in.cleanOk
    /\ gz_cpc' = "checkClean"
    /\ UNCHANGED <<gz_in, gz_ppc, gz_left, gz_pipe, gz_perr, gz_ret, rowVars, dataVars,
                   sanitizeVars, triggerVars, optionVars, restoreVars, bodyVars>>

\* `return err`
ConsumerReturn ==
    /\ gz_cpc = "return"
    /\ gz_ret' = gz_err
    /\ gz_cpc' = "returned"
    /\ UNCHANGED <<gz_in, gz_ppc, gz_err, gz_left, gz_pipe, gz_perr, gz_removed, rowVars,
                   dataVars, sanitizeVars, triggerVars, optionVars, restoreVars, bodyVars>>

NextCompress ==
    \/ ProducerRead
    \/ PipeTransfer
    \/ ProducerCheck
    \/ ProducerClose
    \/ ConsumerCreate
    \/ ConsumerCheck
    \/ ConsumerCopyEnd
    \/ ConsumerClean
    \/ ConsumerReturn

SpecCompress == InitCompress /\ [][NextCompress]_vars

\* every step that can be taken is taken in the end: both goroutines run
SpecCompressFair ==
    /\ InitCompress
    /\ [][NextCompress]_vars
    /\ WF_vars(ProducerRead) /\ WF_vars(PipeTransfer) /\ WF_vars(ProducerCheck)
    /\ WF_vars(ProducerClose) /\ WF_vars(ConsumerCreate) /\ WF_vars(ConsumerCheck)
    /\ WF_vars(ConsumerCopyEnd) /\ WF_vars(ConsumerClean) /\ WF_vars(ConsumerReturn)

NextRow == CallBuildRowData

SpecRow == InitRow /\ [][NextRow]_vars

NextData ==
    \/ WriteDataBegin
    \/ WriteDataRow
    \/ WriteDataEnd

SpecData == InitData /\ [][NextData]_vars

-----------------------------------------------------------------------------
\* The data section writeTableData has written without error, given to
\* Source as its reader.

MaxTripRows == 2

InitRoundTrip ==
    /\ td_types \in ColumnSets
    /\ td_parseTime \in BOOLEAN
    /\ td_rows \in SeqsUpTo([DOMAIN td_types -> BOOLEAN], MaxTripRows)
    /\ td_semi \in BOOLEAN
    /\ td_N \in 0..MaxN
    /\ td_queryOk = TRUE
    /\ td_scanErrAt = 0
    /\ td_pc = "begin"
    /\ td_rowId = 0
    /\ td_out = <<>>
    /\ td_result = "running"
    /\ items = <<>>
    /\ dsnOk = TRUE
    /\ mergeSize \in {1, 2}
    /\ dryRun \in BOOLEAN
    /\ readErrAt = 0
    /\ pc = "open"
    /\ result = "running"
    /\ pos = 0
    /\ reads = 0
    /\ ssql = <<>>
    /\ insertSQLs = <<>>
    /\ i = 0
    /\ dispatched = <<>>
    /\ executed = <<>>
    /\ errAt = 0
    /\ call = 1
    /\ prev = NoPrev
    /\ mi_in = <<>>
    /\ mi_out = NotCalled
    /\ RowIdle /\ SanitizeIdle /\ TriggerIdle /\ OptionIdle /\ BodyIdle /\ GzipIdle

\* Source is called on what an export without error has written
RestoreOpen ==
    /\ td_pc = "returned"
    /\ td_result = "nil"
    /\ SourceOpen

NextRoundTrip ==
    \/ WriteDataBegin
    \/ WriteDataRow
    \/ WriteDataEnd
    \/ RestoreOpen
    \/ SourceUse
    \/ SourceAutocommit0
    \/ ReadStatement
    \/ Accumulate
    \/ Merge
    \/ ExecStatement
    \/ SourceCommit
    \/ SourceAutocommit1

SpecRoundTrip == InitRoundTrip /\ [][NextRoundTrip]_vars

-----------------------------------------------------------------------------
\* What the claims speak of.

Range(seq) == {seq[n] : n \in DOMAIN seq}

Occurrences(seq, x) == Cardinality({n \in DOMAIN seq : seq[n] = x})

Framing == {UseDB, Autocommit0, Commit, Autocommit1}

FromStream(q) == q \notin Framing

\* the dispatched statements that come from the stream
StreamDispatched == SelectSeq(dispatched, FromStream)

Succeeded == pc = "returned" /\ result = "nil"

OnlyKinds(K) == \A n \in DOMAIN items : items[n] \in K

IsRow(tok) == \E n \in DOMAIN items : tok = Row(n)

\* the row tuples a statement carries, in order
Rows(q) == SelectSeq(q, IsRow)

\* positions of the statement terminators of the stream, and its statements
Terminators == {j \in DOMAIN Stream : Stream[j] = ";"}

RECURSIVE Sorted(_)
Sorted(S) == IF S = {} THEN <<>> ELSE <<Min(S)>> \o Sorted(S \ {Min(S)})

StreamStatements ==
    LET ends == Sorted(Terminators)
    IN  [n \in DOMAIN ends |->
            SubSeq(Stream, IF n = 1 THEN 1 ELSE ends[n - 1] + 1, ends[n])]

\* q is text t without the white space around it
IsTrimmed(q, t) ==
    LET solid == {j \in DOMAIN t : ~IsSpace(t[j])}
    IN  IF solid = {} THEN q = <<>> ELSE q = SubSeq(t, Min(solid), Max(solid))

Ceil(a, b) == (a + b - 1) \div b

\* C1: with merge size M>1, a statement that stops the accumulation of a batch
\* because it does not begin with INSERT INTO is dispatched exactly once: in a
\* stream of INSERT and UNLOCK TABLES statements every UNLOCK TABLES statement
\* has been dispatched when Source returns success.
C1_StopperCarriedForward ==
    (Succeeded /\ mergeSize > 1 /\ OnlyKinds({"ins", "oth"}))
        => Occurrences(dispatched, Text("oth", 1)) = Occurrences(items, "oth")

\* C2: k consecutive single-row INSERT statements and merge size M>1 give
\* ceil(k/M) dispatched INSERT statements; the j-th carries rows (j-1)M+1 ..
\* min(jM, k) in stream order, so none carries more than M and no row is lost
\* or duplicated.
C2_MergedBatches ==
    (Succeeded /\ mergeSize > 1 /\ OnlyKinds({"ins"}))
        => LET k == Len(items)
               D == StreamDispatched
           IN  /\ Len(D) = Ceil(k, mergeSize)
               /\ \A j \in DOMAIN D :
                    LET first == (j - 1) * mergeSize + 1
                        last == IF j * mergeSize < k THEN j * mergeSize ELSE k
                    IN  /\ HasPrefix(D[j], <<"INSERT INTO">>)
                        /\ Occurrences(D[j], "VALUES") = 1
                        /\ Occurrences(D[j], ";") = 1
                        /\ Rows(D[j]) = [r \in 1..(last - first + 1) |-> Row(first + r - 1)]

C2_Witness ==
    /\ Succeeded
    /\ mergeSize = 2
    /\ items = [n \in 1..5 |-> "ins"]
    /\ Len(StreamDispatched) = 3
    /\ Rows(StreamDispatched[3]) = <<Row(5)>>

\* C3: with merge size M<=1 the statements dispatched from the stream are the
\* statements of the stream, each trimmed, in stream order, each once; when
\* Source returns success all of them have been dispatched.
C3_NoMerging ==
    mergeSize <= 1
        => LET D == StreamDispatched
               S == StreamStatements
           IN  /\ Len(D) <= Len(S)
               /\ \A n \in DOMAIN D : IsTrimmed(D[n], S[n])
               /\ Succeeded => Len(D) = Len(S)

C3_Witness ==
    /\ Succeeded
    /\ mergeSize <= 1
    /\ Len(items) = 3
    /\ OnlyKinds({"ins"})
    /\ Len(StreamDispatched) = 3

\* C4: when Source returns success every statement of the stream has been
\* dispatched (every row and every UNLOCK TABLES of a stream of INSERT and
\* UNLOCK TABLES statements), SET autocommit=0 was dispatched before them, and
\* COMMIT then SET autocommit=1 were dispatched last.
C4_AllDispatchedThenCommit ==
    (Succeeded /\ OnlyKinds({"ins", "oth"}))
        => LET n == Len(dispatched)
           IN  /\ n >= 4
               /\ dispatched[1] = UseDB
               /\ dispatched[2] = Autocommit0
               /\ dispatched[n - 1] = Commit
               /\ dispatched[n] = Autocommit1
               /\ \A j \in 3..(n - 2) : FromStream(dispatched[j])
               /\ Occurrences(dispatched, Text("oth", 1)) = Occurrences(items, "oth")
               /\ \A m \in DOMAIN items :
                    items[m] = "ins" =>
                        Cardinality({j \in 1..n : Row(m) \in Range(dispatched[j])}) = 1

\* C5: once a read of the stream or the execution of a statement has failed,
\* Source has returned that error and nothing was dispatched after the
\* failure (so neither COMMIT nor SET autocommit=1 follows it).
C5_StopsAtFirstError ==
    errAt # 0
        => /\ pc = "returned"
           /\ result = IF readErrAt # 0 /\ reads = readErrAt THEN "readErr" ELSE "execErr"
           /\ Len(dispatched) = errAt
           /\ result = "readErr" => Commit \notin Range(dispatched)
           /\ Autocommit1 \in Range(dispatched) => dispatched[errAt] = Autocommit1
           /\ Commit \in Range(dispatched) => errAt \in {Len(dispatched), Len(dispatched) - 1}

C5_Witness ==
    /\ result = "readErr"
    /\ reads = 2
    /\ Len(StreamDispatched) = 1
    /\ Len(items) >= 2

\* C6: a dry run passes nothing to the database, and it dispatches to the
\* executor wrapper the very sequence of statements that the live run over
\* the same stream and options dispatches when no statement of the live run
\* fails.
C6_DryRunSameDispatch ==
    /\ dryRun => executed = <<>>
    /\ (call = 2 /\ pc = "returned" /\ dryRun /\ prev.result = "nil")
            => result = "nil" /\ dispatched = prev.dispatched
    /\ (call = 2 /\ pc = "returned" /\ ~dryRun /\ result = "nil")
            => /\ prev.result = "nil"
               /\ prev.executed = <<>>
               /\ dispatched = prev.dispatched
               /\ executed = dispatched

C6_Witness ==
    /\ call = 2
    /\ Succeeded
    /\ dryRun
    /\ prev.result = "nil"
    /\ mergeSize = 2
    /\ Len(items) = 3
    /\ Len(prev.executed) = 6

\* C7: no statement is ended at an escaped ";": no dispatched statement ends
\* in a backslash followed by ";".
C7_NoSplitAtEscapedTerminator ==
    \A n \in DOMAIN dispatched : ~HasSuffix(dispatched[n], <<"\\", ";">>)

\* C8: comments are ignored: a comment line is never part of a dispatched
\* statement.
C8_CommentsNotDispatched ==
    \A n \in DOMAIN dispatched : "-- c" \notin Range(dispatched[n])

\* C9: a batch holding a statement without the VALUES token makes Source fail
\* with the malformed-statement error: no batch with such a statement gets
\* past mergeInsert to the executor.
C9_BatchWithoutValuesFails ==
    (pc = "exec" /\ insertSQLs # <<>>)
        => \A n \in DOMAIN insertSQLs : "VALUES" \in Range(insertSQLs[n])

-----------------------------------------------------------------------------
\* mergeInsert on its own.

RECURSIVE MoreValues(_)
MoreValues(sts) ==
    IF sts = <<>> THEN <<>>
    ELSE <<",">> \o StmtValues(Head(sts)) \o MoreValues(Tail(sts))

AllHaveValues == \A n \in DOMAIN mi_in : mi_in[n].kind = "values"

\* C10: mergeInsert of s1..sn, n>=1, each with its VALUES keyword, returns s1
\* without its ";", then for s2..sn in order "," and the text after the VALUES
\* keyword without the ";", then one ";"; for n=1 that is s1 itself.
C10_MergeInsertText ==
    (mi_out # NotCalled /\ Len(mi_in) >= 1 /\ AllHaveValues)
        => /\ mi_out.err = "nil"
           /\ mi_out.sql = StmtPrefix(mi_in[1]) \o StmtValues(mi_in[1])
                               \o MoreValues(Tail(mi_in)) \o <<";">>
           /\ Len(mi_in) = 1 => mi_out.sql = StmtText(mi_in[1])
           /\ Occurrences(mi_out.sql, ";") = 1

C10_Witness ==
    /\ mi_out # NotCalled
    /\ Len(mi_in) = 3
    /\ AllHaveValues
    /\ mi_in[2].rows = <<<<"('", "VALUES", "')">>, <<"(2)">>>>
    /\ mi_out.err = "nil"

-----------------------------------------------------------------------------
\* What the claims about the dump side speak of.

DataReturned == td_pc = "returned"

DataSucceeded == td_pc = "returned" /\ td_result = "nil"

\* positions of the `;` of the output, and the statements they end
DataTerminators == {j \in DOMAIN td_out : td_out[j] = ";"}

DataStatements ==
    LET ends == Sorted(DataTerminators)
    IN  [n \in DOMAIN ends |->
            SubSeq(td_out, IF n = 1 THEN 1 ELSE ends[n - 1] + 1, ends[n])]

\* what follows the last `;` of the output
DataRemainder ==
    SubSeq(td_out, IF DataTerminators = {} THEN 1 ELSE Max(DataTerminators) + 1,
           Len(td_out))

IsInsert(q) == "INSERT INTO" \in Range(q)

\* the INSERT statements of the output, in output order
DataInserts == SelectSeq(DataStatements, IsInsert)

\* q begins, after the line break that ends the statement before it, with the
\* INSERT prefix
HasInsertPrefix(q) ==
    LET t == TrimLeftNL(q)
    IN  Len(t) >= Len(InsertHead) /\ SubSeq(t, 1, Len(InsertHead)) = InsertHead

\* the number of row tuples of a statement
TupleCount(q) == Occurrences(q, "(")

\* C11: a table of r>=1 rows exported with batch size N gives ceil(r/N) INSERT
\* statements when N>=2, each with at most N row tuples and all but the last
\* with exactly N, and r one-row INSERT statements when N<2; every statement
\* begins with the INSERT prefix and ends with `;`.
C11_BatchedInserts ==
    (DataSucceeded /\ Len(td_rows) >= 1)
        => LET r == Len(td_rows)
               ins == DataInserts
           IN  /\ Len(ins) = IF td_N >= 2 THEN Ceil(r, td_N) ELSE r
               /\ ~IsInsert(DataRemainder)
               /\ \A n \in DOMAIN ins :
                    /\ HasInsertPrefix(ins[n])
                    /\ ins[n][Len(ins[n])] = ";"
                    /\ Occurrences(ins[n], "INSERT INTO") = 1
                    /\ TupleCount(ins[n]) =
                          IF td_N < 2 THEN 1
                          ELSE IF n < Len(ins) THEN td_N
                          ELSE r - (Len(ins) - 1) * td_N

C11_Witness ==
    /\ DataSucceeded
    /\ Len(td_rows) = 3
    /\ td_N = 2
    /\ Len(DataInserts) = 2
    /\ TupleCount(DataInserts[1]) = 2
    /\ TupleCount(DataInserts[2]) = 1

\* a token that is the literal of a value: NULL or the text of a cell
IsValueToken(tok) ==
    tok = "NULL" \/ \E r \in 1..MaxRows, c \in 1..MaxCols : tok = Cell(r, c)

\* the literal the value of row r, column c is written as
ValueToken(isNull, r, c) == IF isNull THEN "NULL" ELSE Cell(r, c)

RECURSIVE CursorValues(_)
\* the values of the rows of the cursor from row r on, row by row
CursorValues(r) ==
    IF r > Len(td_rows) THEN <<>>
    ELSE [c \in DOMAIN td_types |-> ValueToken(td_rows[r][c], r, c)] \o CursorValues(r + 1)

\* C12: when a table is exported without error, the row tuples written, read
\* in output order, are exactly the rows returned by the cursor, each once and
\* in cursor order: one tuple per row, holding the values of that row.
C12_TuplesAreCursorRows ==
    DataSucceeded
        => /\ TupleCount(td_out) = Len(td_rows)
           /\ SelectSeq(td_out, IsValueToken) = CursorValues(1)

\* C15: buildRowData returns a non-nil error or a tuple text that holds one
\* literal per column of the row, in column order, separated by len(row)-1
\* commas.
C15_CompleteTupleOrError ==
    (br_out.err = "nil" /\ br_row # <<>>)
        => /\ SelectSeq(br_out.ssql, IsValueToken)
                = [c \in DOMAIN br_row |-> ValueToken(br_row[c].rep = "nil", 1, c)]
           /\ Occurrences(br_out.ssql, ",") = Len(br_row) - 1

\* C17: a NULL value is written as NULL whatever the declared type of its
\* column, without error: a row of NULL values gives NULL literals separated
\* by commas and a nil error for every declared type, and every tuple that
\* holds a literal per column holds NULL in the place of each NULL value.
C17_NullForEveryType ==
    br_out.err # "none"
        => LET values == SelectSeq(br_out.ssql, IsValueToken)
           IN  /\ (\A c \in DOMAIN br_row : br_row[c].rep = "nil")
                    => /\ br_out.err = "nil"
                       /\ values = [c \in DOMAIN br_row |-> "NULL"]
                       /\ Len(br_out.ssql) = Len(br_row) + Occurrences(br_out.ssql, ",")
               /\ (br_out.err = "nil" /\ Len(values) = Len(br_row))
                    => \A c \in DOMAIN br_row :
                          br_row[c].rep = "nil" => values[c] = "NULL"

C17_Witness ==
    /\ Len(br_row) = 2
    /\ br_row[1] = [type |-> <<"GEOMETRY">>, rep |-> "nil"]
    /\ br_row[2] = [type |-> <<"DATE">>, rep |-> "nil"]
    /\ br_out = [ssql |-> <<"NULL", ",", "NULL">>, err |-> "nil"]

LockTables == "LOCK TABLES t WRITE"
DisableKeys == "/*!40000 ALTER TABLE t DISABLE KEYS */"
EnableKeys == "/*!40000 ALTER TABLE t ENABLE KEYS */"
UnlockTables == "UNLOCK TABLES"

\* the place of the only occurrence of tok in the output, 0 without one
PlaceOf(tok) ==
    IF Occurrences(td_out, tok) = 1
    THEN CHOOSE j \in DOMAIN td_out : td_out[j] = tok
    ELSE 0

\* the place of the end of the last row tuple of the output, 0 without one
LastTupleEnd ==
    LET ends == {j \in DOMAIN td_out : td_out[j] = ")"}
    IN  IF ends = {} THEN 0 ELSE Max(ends)

\* the data section is closed: ENABLE KEYS, then UNLOCK TABLES, after the
\* last row
FramingClosed ==
    /\ PlaceOf(EnableKeys) > LastTupleEnd
    /\ PlaceOf(UnlockTables) > PlaceOf(EnableKeys)
    /\ PlaceOf(EnableKeys) > PlaceOf(DisableKeys)

FramingOpened == PlaceOf(LockTables) > 0 /\ PlaceOf(DisableKeys) > PlaceOf(LockTables)

\* C13 as stated: whenever writeTableData has written LOCK TABLES and DISABLE
\* KEYS, it has written ENABLE KEYS and UNLOCK TABLES after the last row by
\* the time it returns.
C13_FramingUnconditional ==
    (DataReturned /\ FramingOpened) => FramingClosed

\* C13: whenever writeTableData returns without error, the data section it has
\* written opens with LOCK TABLES and DISABLE KEYS before the first row and
\* closes with ENABLE KEYS and UNLOCK TABLES after the last row, for every
\* batch size and every number of rows.
C13_FramingOnSuccess ==
    DataSucceeded
        => /\ FramingOpened
           /\ FramingClosed
           /\ \A j \in DOMAIN td_out : td_out[j] = "(" => j > PlaceOf(DisableKeys)

C13_Witness ==
    /\ DataSucceeded
    /\ Len(td_rows) = 3
    /\ td_N = 2
    /\ LastTupleEnd > 0
    /\ FramingOpened
    /\ FramingClosed

HasUnsupportedColumn ==
    \E c \in DOMAIN td_types :
        FormatValue([rep |-> "bytes", payload |-> ""], td_types[c]).status = "unsupported"

\* C14: when a table with a column of an unsupported type has rows and the
\* query and the scans succeed, the data section fails with the
\* unsupported-type error and no row tuple of the table has been written.
C14_UnsupportedFailsAtOnce ==
    (DataReturned /\ td_queryOk /\ td_scanErrAt = 0 /\ Len(td_rows) >= 1
        /\ HasUnsupportedColumn)
        => /\ td_result = "unsupported"
           /\ TupleCount(td_out) = 0

\* C16: when the encoding of a row fails, the output ends where the tuple of
\* the row before it ended, or with the header when there is no such row.
C16_NothingOfFailingRow ==
    (DataReturned /\ td_result = "unsupported")
        => IF td_rowId = 0 THEN td_out = DataHeader
           ELSE LastTupleEnd = Len(td_out)

\* the character an escape sequence of a string literal stands for: the
\* sequences of the SQL backslash-escape rules, and for every other character
\* the character itself
Unescape(c) ==
    CASE c = "0" -> "NUL"
      [] c = "b" -> "BS"
      [] c = "n" -> "\n"
      [] c = "r" -> "\r"
      [] c = "t" -> "TAB"
      [] c = "Z" -> "SUB"
      [] OTHER -> c

RECURSIVE DecodeBody(_)
\* the value of a single-quoted literal from behind its opening quote on; not
\* ok when the literal is not closed or text follows its closing quote
DecodeBody(rest) ==
    IF rest = <<>> THEN [ok |-> FALSE, text |-> <<>>]
    ELSE IF Head(rest) = "\\"
    THEN IF Len(rest) < 2 THEN [ok |-> FALSE, text |-> <<>>]
         ELSE LET d == DecodeBody(SubSeq(rest, 3, Len(rest)))
              IN  [ok |-> d.ok, text |-> <<Unescape(rest[2])>> \o d.text]
    ELSE IF Head(rest) = "'"
    THEN IF Len(rest) = 1 THEN [ok |-> TRUE, text |-> <<>>]
         ELSE IF rest[2] = "'"
         THEN LET d == DecodeBody(SubSeq(rest, 3, Len(rest)))
              IN  [ok |-> d.ok, text |-> <<"'">> \o d.text]
         ELSE [ok |-> FALSE, text |-> <<>>]
    ELSE LET d == DecodeBody(Tail(rest))
         IN  [ok |-> d.ok, text |-> <<Head(rest)>> \o d.text]

Decode(literal) ==
    IF literal # <<>> /\ Head(literal) = "'"
    THEN DecodeBody(Tail(literal))
    ELSE [ok |-> FALSE, text |-> <<>>]

\* C18: for every string over the alphabet, decoding the single-quoted literal
\* written for it with the SQL backslash-escape rules gives the string back.
C18_SanitizeRoundTrip ==
    sz_out # <<"none">> => Decode(sz_out) = [ok |-> TRUE, text |-> sz_in]

\* C19: over any sequence of getTrigger calls, for any tables and databases
\* and also after an enumeration that failed, at most one SHOW TRIGGERS query
\* is issued, and the cache is not modified once the first call has returned.
C19_OneEnumeration ==
    /\ [](trgQueries <= 1)
    /\ [][trgCalls >= 1 => allTriggers' = allTriggers]_vars

C19_Witness ==
    /\ trgCalls = 3
    /\ trgQueries = 1
    /\ allTriggers = EmptyCache
    /\ trgOut.err = "nil"

\* C20: the options in effect during a Dump call are those passed to that
\* call plus the defaults; nothing set by an earlier call carries over.
C20_OptionsOfThisCallOnly ==
    dumpCalls >= 1 => dpOpt = OptionsInEffect(ZeroOption, passed)

\* the `;` of the output between DISABLE KEYS and ENABLE KEYS, not counting
\* the `;` that ends the DISABLE KEYS line itself
TerminatorsBetweenKeys ==
    {j \in DataTerminators : j > PlaceOf(DisableKeys) + 1 /\ j < PlaceOf(EnableKeys)}

\* C30: in a data section written to its end, the number of `;` between
\* DISABLE KEYS and ENABLE KEYS equals the number of INSERT INTO prefixes, for
\* every row count; for a table with zero rows there is neither.
C30_TerminatorPerInsert ==
    DataSucceeded
        => Cardinality(TerminatorsBetweenKeys) = Occurrences(td_out, "INSERT INTO")

\* C28: getTrigger returns a nil error only when the cache holds the complete
\* result of an enumeration that succeeded.
C28_NilErrorOnlyFromCompleteCache ==
    trgOut.err = "nil"
        => \E db \in Databases :
              allTriggers = FillCache(EmptyCache, ShowTriggers(db), Len(ShowTriggers(db)))

\* the triggers of a table in a database, in the order SHOW TRIGGERS lists them
TriggersOn(table, db) ==
    LET rows == ShowTriggers(db)
        RECURSIVE upTo(_)
        upTo(n) == IF n = 0 THEN <<>>
                   ELSE IF rows[n].Table = table THEN Append(upTo(n - 1), rows[n])
                   ELSE upTo(n - 1)
    IN  upTo(Len(rows))

\* C29: the triggers getTrigger returns for a table, and writeTableTrigger
\* writes, are the triggers of that table in the database the dump is in at
\* that moment; stated for calls answered from the complete result of an
\* enumeration.
C29_TriggersOfCurrentDatabase ==
    (trgOut.err = "nil" /\ C28_NilErrorOnlyFromCompleteCache)
        => trgOut.trigger = TriggersOn(trgOut.table, trgOut.db)

-----------------------------------------------------------------------------
\* What the claims about dump speak of.

DumpReturned == dp_pc = "returned"

DumpSucceeded == dp_pc = "returned" /\ dp_result = "nil"

\* the place of x in a list without repetitions, 0 when it is not in it
IndexIn(seq, x) ==
    IF \E n \in DOMAIN seq : seq[n] = x
    THEN CHOOSE n \in DOMAIN seq : seq[n] = x
    ELSE 0

\* where a section belongs: the place of its database in o.Dbs, the place of
\* its table in the tables of that database, and its place among the sections
\* of a table; the header comes before and the footer after every database
SectionRank(x) ==
    CASE x.sec \in {"drop", "dropView"} -> 1
      [] x.sec \in {"struct", "view"} -> 2
      [] x.sec = "data" -> 3
      [] x.sec = "trigger" -> 4
      [] OTHER -> 0

SectionKey(x) ==
    CASE x.sec = "header" -> <<0, 0, 0>>
      [] x.sec = "footer" -> <<Len(dpOpt.Dbs) + 1, 0, 0>>
      [] OTHER -> <<IndexIn(dpOpt.Dbs, x.db),
                    IF x.table = "" THEN 0 ELSE IndexIn(TablesOf(x.db), x.table),
                    SectionRank(x)>>

Before(k, l) ==
    \/ k[1] < l[1]
    \/ k[1] = l[1] /\ k[2] < l[2]
    \/ k[1] = l[1] /\ k[2] = l[2] /\ k[3] < l[3]

InSink(sec, db, table) ==
    \E n \in DOMAIN dp_sink :
        dp_sink[n].sec = sec /\ dp_sink[n].db = db /\ dp_sink[n].table = table

\* C21: a successful dump has written the header first and the footer last,
\* and between them every section in the order of the databases, within a
\* database the USE before the tables, the tables in list order, and for a
\* table DROP, structure, data, triggers; every table of kind BASE TABLE has
\* its structure, and a data section exactly when data export is on.
C21_SectionsInOrder ==
    DumpSucceeded
        => /\ dp_sink[1].sec = "header"
           /\ dp_sink[Len(dp_sink)].sec = "footer"
           /\ \A m, n \in DOMAIN dp_sink :
                m < n => Before(SectionKey(dp_sink[m]), SectionKey(dp_sink[n]))
           /\ \A d \in DOMAIN dpOpt.Dbs : \A t \in DOMAIN TablesOf(dpOpt.Dbs[d]) :
                LET db == dpOpt.Dbs[d]
                    table == TablesOf(db)[t]
                IN  TableType(table) = "BASE TABLE"
                        => /\ InSink("struct", db, table)
                           /\ InSink("data", db, table) <=> dpOpt.isData

C21_Witness ==
    /\ DumpSucceeded
    /\ dpOpt.Dbs = <<"a", "b">>
    /\ dpOpt.isData
    /\ dpOpt.isDropTable
    /\ dp_in.kind = "BASE TABLE"
    /\ InSink("trigger", "a", "u")
    /\ InSink("data", "b", "t")

\* C22: a USE statement is written for a database exactly when more than one
\* database is dumped or the use-db option was passed to the call.
C22_UseIffManyOrRequested ==
    DumpSucceeded
        => \A d \in DOMAIN dpOpt.Dbs :
              InSink("use", dpOpt.Dbs[d], "")
                  <=> (Len(dpOpt.Dbs) > 1 \/ "WithUseDb" \in passed)

\* the error dump returns with when an operation fails
ErrorOf(op) ==
    CASE op = "trigger" -> "queryErr"
      [] OTHER -> op \o "Err"

\* C23: when dump returns the error of a structure, data or trigger emission
\* (or of any other step of the loops), the error is that of the operation
\* that failed, no section of a later table or database and no footer has been
\* written, the last section written is of the table that failed, and all that
\* was written is in the sink.
C23_ErrorAbortsDump ==
    (DumpReturned /\ dp_result # "nil")
        => LET fail == dp_in.fail
               at == <<IndexIn(dpOpt.Dbs, fail.db),
                       IF fail.table = "" THEN 0
                       ELSE IndexIn(TablesOf(fail.db), fail.table),
                       5>>
           IN  /\ dp_result = ErrorOf(fail.op)
               /\ dp_sink = dp_buf
               /\ \A n \in DOMAIN dp_sink : dp_sink[n].sec # "footer"
               /\ fail.op # "footer"
                    => \A n \in DOMAIN dp_sink : Before(SectionKey(dp_sink[n]), at)
               /\ fail.op \in {"struct", "data", "view"}
                    => LET last == dp_sink[Len(dp_sink)]
                       IN  /\ last.sec = fail.op
                           /\ last.db = fail.db
                           /\ last.table = fail.table
                           /\ last.body = <<"head">>

C23_Witness ==
    /\ DumpReturned
    /\ dp_result = "dataErr"
    /\ dp_in.fail = [op |-> "data", db |-> "a", table |-> "u"]
    /\ InSink("trigger", "a", "t")
    /\ dp_sink = dp_buf
    /\ ~InSink("view", "a", "v")

\* C24: a table whose catalog kind is neither BASE TABLE nor VIEW has nothing
\* written for it, and it makes no error: a dump in which no operation fails
\* returns nil and has written the sections of the table after it.
C24_OtherKindsSkipped ==
    dp_in.kind \notin {"BASE TABLE", "VIEW"}
        => /\ \A n \in DOMAIN dp_buf : dp_buf[n].table # "u"
           /\ (DumpReturned /\ dp_in.fail = NoFailure)
                => /\ dp_result = "nil"
                   /\ IndexIn(dpOpt.Dbs, "a") > 0 => InSink("view", "a", "v")

C24_Witness ==
    /\ DumpSucceeded
    /\ dp_in.kind = "SYSTEM VIEW"
    /\ InSink("struct", "a", "t")
    /\ InSink("view", "a", "v")
    /\ \A n \in DOMAIN dp_sink : dp_sink[n].table # "u"

\* C27: a Dump call that was passed the compression option returns a nil
\* error only if the compressed output was produced.
C27_NilOnlyIfCompressed ==
    (dumpCalls >= 1 /\ "WithCompression" \in passed /\ dumpRet.err = "nil")
        => dumpRet.compressed

\* C25: when the goroutine has met an error reading the dump file, Compress
\* returns a non-nil error and has not removed the
\* uncompressed file.
C25_ProducerErrorPropagated ==
    (gz_cpc = "returned" /\ gz_perr # "nil")
        => gz_ret # "nil" /\ ~gz_removed

\* C26: in every execution of Compress the goroutine terminates.
C26_ProducerTerminates == <>(gz_ppc = "done")

\* the stream ends in a statement without its ";"
HasTail == items # <<>> /\ items[Len(items)] = "tail"

Holds(stmt, tok) == \E k \in 1..Len(stmt) : stmt[k] = tok

\* nothing but the unterminated end can make this call fail
NothingFails ==
    /\ dsnOk
    /\ readErrAt = 0
    /\ errAt = 0
    /\ \A n \in 1..Len(items) : items[n] # "nov"

\* C31: the text after the last ";" of the stream is in no statement that
\* Source dispatches, and a call in which nothing else fails ends, after
\* COMMIT, with a nil error.
C31_TailNotDispatched ==
    HasTail =>
        /\ \A k \in 1..Len(dispatched) : ~Holds(dispatched[k], Row(Len(items)))
        /\ (pc = "returned" /\ NothingFails) =>
               /\ result = "nil"
               /\ Len(dispatched) >= 2
               /\ dispatched[Len(dispatched) - 1] = Commit

\* the end of input was met while a batch was accumulated, and Source returned nil
C31_Witness ==
    /\ HasTail
    /\ pc = "returned"
    /\ result = "nil"
    /\ mergeSize = 2
    /\ items = <<"ins", "tail">>
    /\ Len(dispatched) = 5

\* the table and column list the n-th statement of the stream inserts into
TableOf(kind) == IF kind = "insu" THEN "u (c)" ELSE "t (c)"

\* C33: a statement Source dispatches holds the row of an INSERT of the stream
\* only if it inserts into the table and column list of that INSERT: no row is
\* spliced into the statement of another table.
C33_RowsStayInTheirTable ==
    \A k \in 1..Len(dispatched) : \A n \in 1..Len(items) :
        (items[n] \in {"ins", "insu"} /\ Holds(dispatched[k], Row(n)))
            => Holds(dispatched[k], TableOf(items[n]))

RECURSIVE SplitWritten(_, _, _, _)
\* the statements of the text s from token n on: a ";" ends a statement unless
\* it stands inside a quoted literal; cur is the statement begun so far
SplitWritten(s, n, quoted, cur) ==
    IF n > Len(s) THEN <<>>
    ELSE IF s[n] = ";" /\ ~quoted
    THEN <<trim(Append(cur, s[n]))>> \o SplitWritten(s, n + 1, FALSE, <<>>)
    ELSE IF s[n] = "\\" /\ quoted /\ n < Len(s)
    THEN SplitWritten(s, n + 2, quoted, cur \o <<s[n], s[n + 1]>>)
    ELSE SplitWritten(s, n + 1, IF s[n] = "'" THEN ~quoted ELSE quoted, Append(cur, s[n]))

\* the statements of the data section writeTableData has written
WrittenStatements == SplitWritten(td_out, 1, FALSE, <<>>)

\* C32: when Source with merge size 1 has returned nil on a data section that
\* writeTableData wrote without error, the statements it dispatched between
\* SET autocommit=0 and COMMIT are exactly the statements written, in order.
C32_RoundTrip ==
    (td_result = "nil" /\ pc = "returned" /\ result = "nil" /\ mergeSize = 1)
        => SubSeq(dispatched, 3, Len(dispatched) - 2) = WrittenStatements

====
